---- MODULE Spec2Model ----
(***************************************************************************)
(* PID registry of scms-upload: pid_requester.models.PidRequesterXML and   *)
(* the XMLWithPre identifier slots it reads and writes.                    *)
(*                                                                         *)
(* The store is the set of database tables (rows are records, a foreign    *)
(* key is a row number, NULL is 0).  Python's None is the string "None",   *)
(* which is also what an f-string prints for it.                           *)
(***************************************************************************)
EXTENDS Naturals, Sequences, FiniteSets, TLC

None == "None"
NULL == 0

\* Python truthiness of a str-or-None value
Truthy(v) == v # None /\ v # ""

(***************************************************************************)
(* Bounds of the model                                                     *)
(***************************************************************************)
MaxCalls == 3
MaxClock == 2

(***************************************************************************)
(* Program constants                                                       *)
(***************************************************************************)
PidLen == 23
EpochBase == 1580601600
Month == 2
Day == 2

VARIABLES
    docs,          \* PidRequesterXML rows, in order of insertion
    versions,      \* XMLVersion rows, in order of insertion
    journals,      \* XMLJournal rows
    issues,        \* XMLIssue rows
    failures,      \* SyncFailure rows
    bad_requests,  \* PidRequesterBadRequest rows
    relateds,      \* XMLRelatedItem rows
    now,           \* utcnow(), seconds after EpochBase
    calls,         \* the number of calls completed
    last,          \* the last completed call: its arguments and what it returned
    procs          \* registrations in progress (interleaved specification)

vars == <<docs, versions, journals, issues, failures, bad_requests, relateds, now, calls, last, procs>>
store == <<docs, versions, journals, issues, failures, bad_requests, relateds>>

(***************************************************************************)
(* Input documents (XMLWithPre as seen through PidRequesterXMLAdapter)     *)
(***************************************************************************)
XmlV3 == "xml456789012345678901v3"
XmlV2 == "S1806-37132022000199999"
XmlAop == "12345678901234567890aop"
GenV3a == "gen456789012345678901v3"

\* values v3_gen.generates() can return
V3Pool == {XmlV3, GenV3a}

\* (v2, v3, aop_pid) as carried by an incoming XML
NoIds == <<None, None, None>>
XmlIds == <<XmlV2, XmlV3, XmlAop>>
BadIds == <<"bad_size_not_23", "xml_v3", "xml_aop_pid">>

XML(issn_e, doi, volume, ids, abstract) ==
    [ journal_issn_electronic |-> issn_e,
      journal_issn_print      |-> None,
      article_pub_year        |-> "2021",
      pub_year                |-> "2021",
      volume                  |-> volume,
      number                  |-> None,
      suppl                   |-> None,
      fpage                   |-> None,
      fpage_seq               |-> None,
      lpage                   |-> None,
      elocation_id            |-> None,
      main_doi                |-> doi,
      main_toc_section        |-> None,
      z_article_titles_texts  |-> None,
      z_surnames              |-> None,
      z_collab                |-> None,
      z_links                 |-> None,
      z_partial_body          |-> None,
      related_items           |-> {},
      v2                      |-> ids[1],
      v3                      |-> ids[2],
      aop_pid                 |-> ids[3],
      abstract                |-> abstract ]

\* the documents submitted: versions of one article (ahead of print and in
\* an issue, with and without identifiers, with a changed abstract), the same
\* article in a second issue, another article of the same journal and year,
\* and an article in an issue known only by its first page
XMLInputs ==
    { XML("1234-5678", "10.1/X", None, NoIds, "A"),
      XML("1234-5678", "10.1/X", None, NoIds, "B"),
      XML("1234-5678", "10.1/X", "10", NoIds, "A"),
      XML("1234-5678", "10.1/X", None, XmlIds, "A"),
      XML("1234-5678", "10.1/X", None, BadIds, "A"),
      XML("1234-5678", "10.1/Y", None, XmlIds, "A"),
      XML("1234-5678", "10.1/Y", None, NoIds, "A"),
      XML("1234-5678", "10.1/X", "11", NoIds, "B"),
      [XML("1234-5678", None, "10", NoIds, "B") EXCEPT !.fpage = "1"] }

Users == {"user"}
Filenames == {"filename.xml"}

(***************************************************************************)
(* xmlsps.xml_sps_lib.XMLWithPre                                           *)
(***************************************************************************)
\* XMLWithPre.is_aop
is_aop(x) == ~(Truthy(x.volume) \/ Truthy(x.number) \/ Truthy(x.suppl))

\* XMLWithPre.v2_prefix
v2_prefix(x) ==
    "S" \o (IF Truthy(x.journal_issn_electronic)
              THEN x.journal_issn_electronic ELSE x.journal_issn_print)
        \o x.pub_year

\* the check of the setters without the length
setter_accepts_any_length(value) == Truthy(value)

\* the length check of the three identifier setters
setter_accepts(value) == Truthy(value) /\ Len(value) = PidLen

\* XMLWithPre.v2/v3/aop_pid setters: [ok, xml]; ok = FALSE is ValueError
set_v2(x, value) ==
    IF setter_accepts(value) THEN [ok |-> TRUE, xml |-> [x EXCEPT !.v2 = value]]
    ELSE [ok |-> FALSE, xml |-> x]
set_v3(x, value) ==
    IF setter_accepts(value) THEN [ok |-> TRUE, xml |-> [x EXCEPT !.v3 = value]]
    ELSE [ok |-> FALSE, xml |-> x]
set_aop_pid(x, value) ==
    IF setter_accepts(value) THEN [ok |-> TRUE, xml |-> [x EXCEPT !.aop_pid = value]]
    ELSE [ok |-> FALSE, xml |-> x]

\* XMLWithPre.tostring: the serialized document, identifiers included
tostring(x) == x

\* the content hash of the serialized document
finger_print(x) == <<"sha256", tostring(x)>>

(***************************************************************************)
(* Rows                                                                    *)
(***************************************************************************)
\* PidRequesterXML(): a fresh instance, every column at its default
NewDocument ==
    [ journal |-> NULL, issue |-> NULL, related_items |-> {},
      current_version |-> NULL,
      pkg_name |-> None, v3 |-> None, v2 |-> None, aop_pid |-> None,
      elocation_id |-> None, fpage |-> None, fpage_seq |-> None, lpage |-> None,
      article_pub_year |-> None, main_toc_section |-> None, main_doi |-> None,
      z_article_titles_texts |-> None, z_surnames |-> None, z_collab |-> None,
      z_links |-> None, z_partial_body |-> None,
      synchronized |-> "False", sync_failure |-> NULL,
      creator |-> None, created |-> NULL, updated_by |-> None, updated |-> NULL ]

\* PidRequesterXML.is_aop
doc_is_aop(d) == d.issue = NULL

\* PidRequesterXML.__str__
doc_str(d) ==
    IF Truthy(d.pkg_name) THEN d.pkg_name
    ELSE IF Truthy(d.v3) THEN d.v3 ELSE "PidRequesterXML sem ID"

\* SyncFailure.data
SyncFailure_data(f) ==
    [error_type |-> f.error_type, error_msg |-> f.error_msg, traceback |-> f.traceback]

\* PidRequesterXML.data
data(d, fails) ==
    LET _data == [ v3 |-> d.v3, v2 |-> d.v2, aop_pid |-> d.aop_pid,
                   pkg_name |-> d.pkg_name,
                   created |-> d.created, updated |-> d.updated,
                   record_status |-> IF d.updated # NULL THEN "updated" ELSE "created",
                   synchronized |-> d.synchronized ]
    IN  IF d.sync_failure # NULL
        THEN SyncFailure_data(fails[d.sync_failure]) @@ _data
        ELSE _data

\* PidRequesterBadRequest.data with the creator as a fifth key
BadRequest_data_with_creator(b) ==
    [error_type |-> b.error_type, error_message |-> b.error_message,
     id |-> b.finger_print, filename |-> b.basename, creator |-> b.creator]

\* PidRequesterBadRequest.data
BadRequest_data(b) ==
    [ error_type |-> b.error_type, error_message |-> b.error_message,
      id |-> b.finger_print, filename |-> b.basename ]

\* os.path.splitext(os.path.basename(filename))[0], for a ".xml" name
pkg_name_of(filename) == SubSeq(filename, 1, Len(filename) - 4)

(***************************************************************************)
(* Query plan: PidRequesterXMLAdapter.query_params / query_list            *)
(***************************************************************************)
AnyValue(p) == \E k \in DOMAIN p : Truthy(p[k])

query_params(x, filter_by_issue, aop_version) ==
    LET p1 == [z_surnames |-> x.z_surnames, z_collab |-> x.z_collab]
        p2 == IF ~AnyValue(p1) THEN p1 @@ ("main_doi" :> x.main_doi) ELSE p1
        p3 == IF ~AnyValue(p2) THEN p2 @@ ("z_links" :> x.z_links) ELSE p2
        p4 == IF ~AnyValue(p3) THEN p3 @@ ("z_partial_body" :> x.z_partial_body) ELSE p3
        p5 == IF ~AnyValue(p4) THEN p4 @@ ("pkg_name" :> None) ELSE p4
        p6 == p5 @@ ("elocation_id" :> x.elocation_id)
        p7 == IF aop_version THEN p6 @@ ("issue__isnull" :> "True")
              ELSE IF filter_by_issue
                   THEN p6 @@ [ issue__pub_year |-> x.pub_year,
                                issue__volume |-> x.volume,
                                issue__number |-> x.number,
                                issue__suppl |-> x.suppl,
                                fpage |-> x.fpage,
                                fpage_seq |-> x.fpage_seq,
                                lpage |-> x.lpage ]
                   ELSE p6
    IN  p7 @@ [ journal__issn_print |-> x.journal_issn_print,
                journal__issn_electronic |-> x.journal_issn_electronic,
                article_pub_year |-> x.article_pub_year,
                z_article_titles_texts |-> x.z_article_titles_texts ]

query_list(x) ==
    IF is_aop(x) THEN << query_params(x, FALSE, FALSE) >>
    ELSE << query_params(x, TRUE, FALSE), query_params(x, FALSE, TRUE) >>

(***************************************************************************)
(* PidRequesterXML: resolution                                             *)
(***************************************************************************)
Get(params, k) == IF k \in DOMAIN params THEN params[k] ELSE None

\* validate_query_params that does not count pkg_name
validate_query_params_without_pkg_name(params) ==
    /\ Truthy(Get(params, "journal__issn_print"))
          \/ Truthy(Get(params, "journal__issn_electronic"))
    /\ Truthy(Get(params, "article_pub_year")) \/ Truthy(Get(params, "issue__pub_year"))
    /\ \/ Truthy(Get(params, "main_doi"))
       \/ Truthy(Get(params, "fpage"))
       \/ Truthy(Get(params, "elocation_id"))
       \/ Truthy(Get(params, "z_surnames"))
       \/ Truthy(Get(params, "z_collab"))
       \/ Truthy(Get(params, "z_links"))

\* PidRequesterXML.validate_query_params: TRUE, or FALSE for
\* NotEnoughParametersToGetDocumentRecordError
validate_query_params(params) ==
    IF ~(Truthy(Get(params, "journal__issn_print"))
         \/ Truthy(Get(params, "journal__issn_electronic")))
    THEN FALSE
    ELSE IF ~(Truthy(Get(params, "article_pub_year"))
              \/ Truthy(Get(params, "issue__pub_year")))
    THEN FALSE
    ELSE IF \/ Truthy(Get(params, "main_doi"))
            \/ Truthy(Get(params, "fpage"))
            \/ Truthy(Get(params, "elocation_id"))
    THEN TRUE
    ELSE IF ~(\/ Truthy(Get(params, "z_surnames"))
              \/ Truthy(Get(params, "z_collab"))
              \/ Truthy(Get(params, "z_links"))
              \/ Truthy(Get(params, "pkg_name")))
    THEN FALSE
    ELSE TRUE

\* the value a lookup key reads from a row (joins follow the foreign keys;
\* a NULL foreign key reads NULL columns)
Column(d, k, js, is) ==
    CASE k = "journal__issn_print" ->
            IF d.journal = NULL THEN None ELSE js[d.journal].issn_print
      [] k = "journal__issn_electronic" ->
            IF d.journal = NULL THEN None ELSE js[d.journal].issn_electronic
      [] k = "issue__isnull" -> IF d.issue = NULL THEN "True" ELSE "False"
      [] k = "issue__pub_year" -> IF d.issue = NULL THEN None ELSE is[d.issue].pub_year
      [] k = "issue__volume" -> IF d.issue = NULL THEN None ELSE is[d.issue].volume
      [] k = "issue__number" -> IF d.issue = NULL THEN None ELSE is[d.issue].number
      [] k = "issue__suppl" -> IF d.issue = NULL THEN None ELSE is[d.issue].suppl
      [] OTHER -> d[k]

\* cls.objects.filter(**params): the matching row numbers
Filter(ds, params, js, is) ==
    { i \in 1..Len(ds) : \A k \in DOMAIN params : Column(ds[i], k, js, is) = params[k] }

\* _query_document that gives up after a tier without a match
query_tiers_first_only(tiers, n, ds, js, is) ==
    IF n > Len(tiers) THEN [error |-> None, registered |-> NULL, queried |-> n - 1]
    ELSE IF ~validate_query_params(tiers[n])
    THEN [error |-> "NotEnoughParametersToGetDocumentRecordError", registered |-> NULL,
          queried |-> n - 1]
    ELSE LET found == Filter(ds, tiers[n], js, is)
         IN  IF found = {} THEN [error |-> None, registered |-> NULL, queried |-> n]
             ELSE IF Cardinality(found) = 1
             THEN [error |-> None, registered |-> CHOOSE i \in found : TRUE,
                   queried |-> n]
             ELSE [error |-> "QueryDocumentMultipleObjectsReturnedError",
                   registered |-> NULL, queried |-> n]

\* _query_document that takes one of several matches
RECURSIVE query_tiers_picks_one(_, _, _, _, _)
query_tiers_picks_one(tiers, n, ds, js, is) ==
    IF n > Len(tiers) THEN [error |-> None, registered |-> NULL, queried |-> n - 1]
    ELSE IF ~validate_query_params(tiers[n])
    THEN [error |-> "NotEnoughParametersToGetDocumentRecordError", registered |-> NULL,
          queried |-> n - 1]
    ELSE LET found == Filter(ds, tiers[n], js, is)
         IN  IF found = {} THEN query_tiers_picks_one(tiers, n + 1, ds, js, is)
             ELSE [error |-> None, registered |-> CHOOSE i \in found : TRUE,
                   queried |-> n]

\* PidRequesterXML._query_document over the tiers from position n on:
\* [error, registered, queried]; registered = NULL is the None result,
\* queried the number of objects.get it has run
RECURSIVE query_tiers(_, _, _, _, _)
query_tiers(tiers, n, ds, js, is) ==
    IF n > Len(tiers) THEN [error |-> None, registered |-> NULL, queried |-> n - 1]
    ELSE IF ~validate_query_params(tiers[n])
    THEN [error |-> "NotEnoughParametersToGetDocumentRecordError", registered |-> NULL,
          queried |-> n - 1]
    ELSE LET found == Filter(ds, tiers[n], js, is)
         IN  IF found = {} THEN query_tiers(tiers, n + 1, ds, js, is)
             ELSE IF Cardinality(found) = 1
             THEN [error |-> None, registered |-> CHOOSE i \in found : TRUE,
                   queried |-> n]
             ELSE [error |-> "QueryDocumentMultipleObjectsReturnedError",
                   registered |-> NULL, queried |-> n]

_query_document(x, ds, js, is) == query_tiers(query_list(x), 1, ds, js, is)

\* evaluate_registration without the test of the incoming document
evaluate_registration_ignores_incoming(x, registered, ds) ==
    ~(registered # NULL /\ ~doc_is_aop(ds[registered]))

\* evaluate_registration without any test
evaluate_registration_accepts_all(x, registered, ds) == TRUE

\* PidRequesterXML.evaluate_registration: TRUE, or FALSE for
\* ForbiddenPidRequesterXMLRegistrationError
evaluate_registration(x, registered, ds) ==
    ~(is_aop(x) /\ registered # NULL /\ ~doc_is_aop(ds[registered]))

(***************************************************************************)
(* PidRequesterXML: identifier allocation                                  *)
(***************************************************************************)
DigitStr == <<"0", "1", "2", "3", "4", "5", "6", "7", "8", "9">>

\* str(n) for a natural number
RECURSIVE Str(_)
Str(n) == IF n < 10 THEN DigitStr[n + 1] ELSE Str(n \div 10) \o DigitStr[(n % 10) + 1]

\* s.zfill(w)
RECURSIVE zfill(_, _)
zfill(s, w) == IF Len(s) < w THEN zfill("0" \o s, w) ELSE s

\* s[-5:]
Last5(s) == IF Len(s) > 5 THEN SubSeq(s, Len(s) - 4, Len(s)) ELSE s

\* _v2_generates with the first five digits of the epoch second
_v2_generates_first_digits(x, t) ==
    v2_prefix(x) \o zfill(Str(Month), 2) \o zfill(Str(Day), 2)
                 \o SubSeq(Str(EpochBase + t), 1, 5)

\* PidRequesterXML._v2_generates at second t
_v2_generates(x, t) ==
    v2_prefix(x) \o zfill(Str(Month), 2) \o zfill(Str(Day), 2) \o Last5(Str(EpochBase + t))

\* PidRequesterXML._is_registered_pid
_is_registered_pid(ds, v2, v3, aop_pid) ==
    IF Truthy(v3) THEN \E i \in 1..Len(ds) : ds[i].v3 = v3
    ELSE IF Truthy(v2) THEN \E i \in 1..Len(ds) : ds[i].v2 = v2
    ELSE IF Truthy(aop_pid) THEN \E i \in 1..Len(ds) : ds[i].aop_pid = aop_pid
    ELSE FALSE

\* _is_valid_pid that takes a value of any length
_is_valid_pid_any_length(value) == Truthy(value)

\* PidRequesterXML._is_valid_pid
_is_valid_pid(value) == Truthy(value) /\ Len(value) = PidLen

\* PidRequesterXML._get_unique_v3: the values the loop can return
_get_unique_v3(ds) == { g \in V3Pool : ~_is_registered_pid(ds, None, g, None) }

\* PidRequesterXML._get_unique_v2: the loop returns at second t exactly when
\* the value generated at t is not registered
_get_unique_v2(x, ds, t) ==
    { g \in {_v2_generates(x, t)} : ~_is_registered_pid(ds, g, None, None) }

\* v3_is_generated without the lookup of the XML's v3 in the store
v3_is_generated_unchecked(x, registered, ds) ==
    registered = NULL /\ ~_is_valid_pid(x.v3)

\* whether _add_pid_v3 asks for a new v3
v3_is_generated(x, registered, ds) ==
    /\ registered = NULL
    /\ ~_is_valid_pid(x.v3) \/ _is_registered_pid(ds, None, x.v3, None)

\* _add_pid_v3 that keeps a well-formed v3 of the XML over the registered one
_add_pid_v3_keeps_xml(x, registered, ds, generated) ==
    IF registered # NULL /\ ~_is_valid_pid(x.v3) THEN set_v3(x, ds[registered].v3)
    ELSE IF registered = NULL /\ ~_is_valid_pid(x.v3) THEN set_v3(x, generated)
    ELSE [ok |-> TRUE, xml |-> x]

\* PidRequesterXML._add_pid_v3; generated is what _get_unique_v3 returns
_add_pid_v3(x, registered, ds, generated) ==
    IF registered # NULL THEN set_v3(x, ds[registered].v3)
    ELSE IF v3_is_generated(x, registered, ds) THEN set_v3(x, generated)
    ELSE [ok |-> TRUE, xml |-> x]

\* the first statement of _add_pid_v2: the registered v2 replaces the XML's
v2_from_registered(x, registered, ds) ==
    IF registered # NULL /\ Truthy(ds[registered].v2) /\ x.v2 # ds[registered].v2
    THEN set_v2(x, ds[registered].v2)
    ELSE [ok |-> TRUE, xml |-> x]

\* whether _add_pid_v2 asks for a new v2
v2_is_generated(x, registered, ds) ==
    LET r == v2_from_registered(x, registered, ds)
    IN  r.ok /\ ~_is_valid_pid(r.xml.v2)

\* _add_pid_v2 without the carry-over of the registered v2
_add_pid_v2_ignores_registered(x, registered, ds, generated) ==
    IF ~_is_valid_pid(x.v2) THEN set_v2(x, generated) ELSE [ok |-> TRUE, xml |-> x]

\* PidRequesterXML._add_pid_v2; generated is what _get_unique_v2 returns
_add_pid_v2(x, registered, ds, generated) ==
    LET r == v2_from_registered(x, registered, ds)
    IN  IF ~r.ok THEN r
        ELSE IF ~_is_valid_pid(r.xml.v2) THEN set_v2(r.xml, generated)
        ELSE r

\* _add_aop_pid that carries nothing over
_add_aop_pid_never_carries(x, registered, ds) == [ok |-> TRUE, xml |-> x]

\* PidRequesterXML._add_aop_pid
_add_aop_pid(x, registered, ds) ==
    IF registered # NULL /\ Truthy(ds[registered].aop_pid)
    THEN set_aop_pid(x, ds[registered].aop_pid)
    ELSE [ok |-> TRUE, xml |-> x]

\* _complete_pids that reports a change of v3 only
_complete_pids_compares_v3(x, registered, ds, gen_v3, gen_v2) ==
    LET r3 == _add_pid_v3(x, registered, ds, gen_v3)
        r2 == IF r3.ok THEN _add_pid_v2(r3.xml, registered, ds, gen_v2) ELSE r3
        ra == IF r2.ok THEN _add_aop_pid(r2.xml, registered, ds) ELSE r2
    IN  [ok |-> ra.ok, xml |-> ra.xml, changed |-> x.v3 # ra.xml.v3]

\* PidRequesterXML._complete_pids: [ok, xml, changed]; ok = FALSE is the
\* ValueError of a setter
_complete_pids(x, registered, ds, gen_v3, gen_v2) ==
    LET r3 == _add_pid_v3(x, registered, ds, gen_v3)
        r2 == IF r3.ok THEN _add_pid_v2(r3.xml, registered, ds, gen_v2) ELSE r3
        ra == IF r2.ok THEN _add_aop_pid(r2.xml, registered, ds) ELSE r2
    IN  [ ok |-> ra.ok, xml |-> ra.xml,
          changed |-> <<x.v2, x.v3, x.aop_pid>> # <<ra.xml.v2, ra.xml.v3, ra.xml.aop_pid>> ]

(***************************************************************************)
(* PidRequesterXML: persistence                                            *)
(***************************************************************************)
NoError == [error_msg |-> None, error_type |-> None, traceback |-> None]
RemoteError == [error_msg |-> "error_msg", error_type |-> "error_type",
                traceback |-> "traceback"]
\* what a remote push reports: (xml_uri, error)
RemoteOutcomes == { <<"xml_uri", NoError>>, <<None, RemoteError>> }
\* the test of _save for error details, asking for all three
has_error_needs_all(err) ==
    Truthy(err.error_msg) /\ Truthy(err.error_type) /\ Truthy(err.traceback)

\* "if error_msg or error_type or traceback"
has_error(err) == Truthy(err.error_msg) \/ Truthy(err.error_type) \/ Truthy(err.traceback)

\* XMLJournal.get_or_create: [rows, id]
XMLJournal_get_or_create(js, issn_electronic, issn_print) ==
    LET row == [issn_electronic |-> issn_electronic, issn_print |-> issn_print]
        found == { i \in 1..Len(js) : js[i] = row }
    IN  IF found # {} THEN [rows |-> js, id |-> CHOOSE i \in found : TRUE]
        ELSE [rows |-> Append(js, row), id |-> Len(js) + 1]

\* XMLIssue.get_or_create: [rows, id]
XMLIssue_get_or_create(is, journal, volume, number, suppl, pub_year) ==
    LET row == [journal |-> journal, volume |-> volume, number |-> number,
                suppl |-> suppl, pub_year |-> pub_year]
        found == { i \in 1..Len(is) : is[i] = row }
    IN  IF found # {} THEN [rows |-> is, id |-> CHOOSE i \in found : TRUE]
        ELSE [rows |-> Append(is, row), id |-> Len(is) + 1]

\* SyncFailure.create
SyncFailure_create(err, creator, t) ==
    [error_msg |-> err.error_msg, error_type |-> err.error_type,
     traceback |-> err.traceback, creator |-> creator, created |-> t]

\* XMLVersion.create
XMLVersion_create(creator, pid_requester_xml, pkg_name, fp, xml_content, t) ==
    [finger_print |-> fp, pid_requester_xml |-> pid_requester_xml,
     pkg_name |-> pkg_name, file |-> xml_content, creator |-> creator, created |-> t]

\* PidRequesterXML._add_data, the column assignments
_add_data(d, x, pkg_name, journal, issue) ==
    [ d EXCEPT !.pkg_name = pkg_name,
               !.article_pub_year = x.article_pub_year,
               !.v3 = x.v3, !.v2 = x.v2, !.aop_pid = x.aop_pid,
               !.fpage = x.fpage, !.fpage_seq = x.fpage_seq, !.lpage = x.lpage,
               !.main_doi = x.main_doi, !.main_toc_section = x.main_toc_section,
               !.elocation_id = x.elocation_id,
               !.z_article_titles_texts = x.z_article_titles_texts,
               !.z_surnames = x.z_surnames, !.z_collab = x.z_collab,
               !.z_links = x.z_links, !.z_partial_body = x.z_partial_body,
               !.journal = journal, !.issue = issue,
               !.related_items = @ \cup x.related_items ]

\* set_current_version that always creates a version
needs_new_version_always(d, vs, fp) == TRUE

\* set_current_version that creates a version only when there is none
needs_new_version_first_only(d, vs, fp) == d.current_version = NULL

\* the test of PidRequesterXML.set_current_version
needs_new_version(d, vs, fp) ==
    d.current_version = NULL \/ vs[d.current_version].finger_print # fp

\* set_current_version that writes the new version over the current one
set_current_version_in_place(d, id, vs, creator, pkg_name, fp, xml_content, t) ==
    LET row == XMLVersion_create(creator, id, pkg_name, fp, xml_content, t)
    IN  IF ~needs_new_version(d, vs, fp) THEN [doc |-> d, versions |-> vs]
        ELSE IF d.current_version # NULL
        THEN [doc |-> d, versions |-> [vs EXCEPT ![d.current_version] = row]]
        ELSE [doc |-> [d EXCEPT !.current_version = Len(vs) + 1],
              versions |-> Append(vs, row)]

\* PidRequesterXML.set_current_version: [doc, versions]
set_current_version(d, id, vs, creator, pkg_name, fp, xml_content, t) ==
    IF needs_new_version(d, vs, fp)
    THEN [ doc |-> [d EXCEPT !.current_version = Len(vs) + 1],
           versions |-> Append(vs, XMLVersion_create(creator, id, pkg_name, fp,
                                                     xml_content, t)) ]
    ELSE [doc |-> d, versions |-> vs]

\* the first lines of _save stamping created and creator on every call
registered_or_new_restamps(registered, ds, user, t) ==
    IF registered # NULL
    THEN [ds[registered] EXCEPT !.creator = user, !.created = t,
                                !.updated_by = user, !.updated = t]
    ELSE [NewDocument EXCEPT !.creator = user, !.created = t]

\* the first lines of _save: the resolved row stamped as updated, or a new
\* row stamped as created
registered_or_new(registered, ds, user, t) ==
    IF registered # NULL
    THEN [ds[registered] EXCEPT !.updated_by = user, !.updated = t]
    ELSE [NewDocument EXCEPT !.creator = user, !.created = t]

\* PidRequesterXML._save: the tables after it, and the row it wrote
_save(registered, x, user, pkg_name, xml_content, fp, synchronized, err, ds, vs, js, is, fs, rs, t) ==
    LET id == IF registered # NULL THEN registered ELSE Len(ds) + 1
        d0 == registered_or_new(registered, ds, user, t)
        j  == XMLJournal_get_or_create(js, x.journal_issn_electronic,
                                       x.journal_issn_print)
        i  == IF Truthy(x.volume) \/ Truthy(x.number) \/ Truthy(x.suppl)
              THEN XMLIssue_get_or_create(is, j.id, x.volume, x.number, x.suppl,
                                          x.pub_year)
              ELSE [rows |-> is, id |-> NULL]
        d1 == _add_data(d0, x, pkg_name, j.id, i.id)
        fs1 == IF has_error(err) THEN Append(fs, SyncFailure_create(err, user, t))
               ELSE fs
        d2 == IF has_error(err)
              THEN [d1 EXCEPT !.synchronized = "False", !.sync_failure = Len(fs1)]
              ELSE [d1 EXCEPT !.synchronized = synchronized]
        c  == set_current_version(d2, id, vs, user, pkg_name, fp, xml_content, t)
    IN  [ docs |-> IF registered # NULL THEN [ds EXCEPT ![id] = c.doc]
                   ELSE Append(ds, c.doc),
          versions |-> c.versions, journals |-> j.rows, issues |-> i.rows,
          failures |-> fs1, relateds |-> rs \cup x.related_items, id |-> id ]

\* PidRequesterBadRequest.get_or_create that never looks for the finger print
BadRequest_get_or_create_always_new(bs, creator, basename, error_type, error_message, x) ==
    [ rows |-> Append(bs, [finger_print |-> finger_print(x), xml |-> tostring(x),
                           basename |-> basename, error_type |-> error_type,
                           error_message |-> error_message, creator |-> creator]),
      id |-> Len(bs) + 1 ]

\* PidRequesterBadRequest.get_or_create: [rows, id]
BadRequest_get_or_create(bs, creator, basename, error_type, error_message, x) ==
    LET fp == finger_print(x)
        found == { i \in 1..Len(bs) : bs[i].finger_print = fp }
        row == [finger_print |-> fp, xml |-> tostring(x), basename |-> basename,
                error_type |-> error_type, error_message |-> error_message,
                creator |-> creator]
    IN  IF found # {}
        THEN LET i == CHOOSE i \in found : TRUE
             IN  [rows |-> [bs EXCEPT ![i] = row], id |-> i]
        ELSE [rows |-> Append(bs, row), id |-> Len(bs) + 1]

(***************************************************************************)
(* PidRequesterXML: registration demand                                    *)
(***************************************************************************)
\* is_equal_to that compares nothing once there is a current version
is_equal_to_any_version(d, vs, x) == d.current_version # NULL

\* PidRequesterXML.is_equal_to
is_equal_to(d, vs, x) ==
    d.current_version # NULL /\ vs[d.current_version].finger_print = finger_print(x)

\* the except clause of check_registration_demand and get_registered, re-raising
query_error_raised(x, error) == [raised |-> error]

\* the except clause of check_registration_demand and get_registered
query_error(x, error) == [error_msg |-> <<error, query_list(x)>>, error_type |-> error]

\* PidRequesterXML.unsynchronized: the rows of filter(synchronized=False)
unsynchronized(ds) == { i \in 1..Len(ds) : ds[i].synchronized = "False" }

\* check_registration_demand that asks for the local registration of new
\* documents only
check_registration_demand_local_if_new(x, ds, vs, js, is, fs) ==
    LET q == _query_document(x, ds, js, is)
        registered == q.registered
        required_remote == \/ registered = NULL
                           \/ ~is_equal_to(ds[registered], vs, x)
                           \/ ds[registered].synchronized # "True"
        required_local == registered = NULL
    IN  IF q.error # None THEN query_error(x, q.error)
        ELSE [ registered |-> IF registered # NULL THEN data(ds[registered], fs)
                              ELSE <<>>,
               required_local_registration |-> required_local,
               required_remote_registration |-> required_remote ]

\* PidRequesterXML.check_registration_demand
check_registration_demand(x, ds, vs, js, is, fs) ==
    LET q == _query_document(x, ds, js, is)
        registered == q.registered
        required_remote == \/ registered = NULL
                           \/ ~is_equal_to(ds[registered], vs, x)
                           \/ ds[registered].synchronized # "True"
        required_local == registered = NULL \/ required_remote
    IN  IF q.error # None THEN query_error(x, q.error)
        ELSE [ registered |-> IF registered # NULL THEN data(ds[registered], fs)
                              ELSE <<>>,
               required_local_registration |-> required_local,
               required_remote_registration |-> required_remote ]

\* PidRequesterXML.get_registered
get_registered(x, ds, js, is, fs) ==
    LET q == _query_document(x, ds, js, is)
    IN  IF q.error # None THEN query_error(x, q.error)
        ELSE IF q.registered # NULL THEN data(ds[q.registered], fs)
        ELSE None

(***************************************************************************)
(* Calls, one at a time                                                    *)
(***************************************************************************)
Procs == {"p1", "p2"}
Idle == [pc |-> "idle"]

Init ==
    /\ docs = <<>>
    /\ versions = <<>>
    /\ journals = <<>>
    /\ issues = <<>>
    /\ failures = <<>>
    /\ bad_requests = <<>>
    /\ relateds = {}
    /\ now = 1
    /\ calls = 0
    /\ last = [op |-> "init"]
    /\ procs = [p \in Procs |-> Idle]

\* whether x is the input of the accepted registration just before
is_repeat(x) == last.op = "register" /\ last.outcome = "accepted" /\ last.xml = x

\* the except clause of PidRequesterXML.register
register_bad_request(x, filename, user, registered, error_type) ==
    LET message == IF registered # NULL THEN <<error_type, doc_str(docs[registered])>>
                   ELSE <<error_type, query_list(x)>>
        b == BadRequest_get_or_create(bad_requests, user, filename, error_type, message, x)
    IN  /\ bad_requests' = b.rows
        /\ UNCHANGED <<docs, versions, journals, issues, failures, relateds>>
        /\ last' = [ op |-> "register", xml |-> x, registered |-> registered,
                     outcome |-> "bad_request",
                     queried |-> _query_document(x, docs, journals, issues).queried,
                     result |-> BadRequest_data(b.rows[b.id]) ]

\* PidRequesterXML.register, from _complete_pids on
register_accepted(x, filename, user, synchronized, err, registered) ==
    \E gen_v3 \in (IF v3_is_generated(x, registered, docs)
                   THEN _get_unique_v3(docs) ELSE {None}) :
    \E gen_v2 \in (IF v2_is_generated(x, registered, docs)
                   THEN _get_unique_v2(x, docs, now) ELSE {None}) :
        LET c == _complete_pids(x, registered, docs, gen_v3, gen_v2)
            s == _save(registered, c.xml, user, pkg_name_of(filename), tostring(c.xml),
                       finger_print(c.xml), synchronized, err,
                       docs, versions, journals, issues, failures, relateds, now)
        IN  IF ~c.ok
            THEN /\ UNCHANGED store
                 /\ last' = [ op |-> "register", xml |-> x, registered |-> registered,
                              outcome |-> "raised", repeat |-> is_repeat(x),
                              result |-> [raised |-> "ValueError"] ]
            ELSE /\ docs' = s.docs
                 /\ versions' = s.versions
                 /\ journals' = s.journals
                 /\ issues' = s.issues
                 /\ failures' = s.failures
                 /\ relateds' = s.relateds
                 /\ UNCHANGED bad_requests
                 /\ last' = [ op |-> "register", xml |-> x, registered |-> registered,
                              outcome |-> "accepted", id |-> s.id,
                              synchronized |-> synchronized, err |-> err,
                              repeat |-> is_repeat(x),
                              result |-> data(s.docs[s.id], s.failures)
                                           @@ [xml_changed |-> c.changed] ]

\* PidRequesterXML.register
Register(x, filename, user, synchronized, err) ==
    LET q == _query_document(x, docs, journals, issues)
    IN  /\ calls < MaxCalls
        /\ calls' = calls + 1
        /\ IF q.error # None
           THEN register_bad_request(x, filename, user, NULL, q.error)
           ELSE IF ~evaluate_registration(x, q.registered, docs)
           THEN register_bad_request(x, filename, user, q.registered,
                                     "ForbiddenPidRequesterXMLRegistrationError")
           ELSE register_accepted(x, filename, user, synchronized, err, q.registered)
        /\ UNCHANGED <<now, procs>>

\* set_synchronized that detaches the current version after a failed push
SetSynchronized_detaches_version(id, user, xml_uri, err) ==
    LET fs1 == IF has_error(err)
               THEN Append(failures, SyncFailure_create(err, user, now))
               ELSE failures
        d1 == [docs[id] EXCEPT !.synchronized = IF Truthy(xml_uri) THEN "True" ELSE "False"]
        d2 == IF has_error(err)
              THEN [d1 EXCEPT !.sync_failure = Len(fs1), !.current_version = NULL]
              ELSE d1
        d3 == [d2 EXCEPT !.updated_by = user, !.updated = now]
    IN  /\ calls < MaxCalls
        /\ calls' = calls + 1
        /\ failures' = fs1
        /\ docs' = [docs EXCEPT ![id] = d3]
        /\ last' = [op |-> "set_synchronized", id |-> id]
        /\ UNCHANGED <<versions, journals, issues, bad_requests, relateds, now, procs>>

\* set_synchronized that takes the failure off after a push that went well
SetSynchronized_clears_failure(id, user, xml_uri, err) ==
    LET fs1 == IF has_error(err)
               THEN Append(failures, SyncFailure_create(err, user, now))
               ELSE failures
        d1 == [docs[id] EXCEPT !.synchronized = IF Truthy(xml_uri) THEN "True" ELSE "False"]
        d2 == IF has_error(err) THEN [d1 EXCEPT !.sync_failure = Len(fs1)]
              ELSE [d1 EXCEPT !.sync_failure = NULL]
        d3 == [d2 EXCEPT !.updated_by = user, !.updated = now]
    IN  /\ calls < MaxCalls
        /\ calls' = calls + 1
        /\ failures' = fs1
        /\ docs' = [docs EXCEPT ![id] = d3]
        /\ last' = [op |-> "set_synchronized", id |-> id]
        /\ UNCHANGED <<versions, journals, issues, bad_requests, relateds, now, procs>>

\* PidRequesterXML.set_synchronized
SetSynchronized(id, user, xml_uri, err) ==
    LET fs1 == IF has_error(err)
               THEN Append(failures, SyncFailure_create(err, user, now))
               ELSE failures
        d1 == [docs[id] EXCEPT !.synchronized = IF Truthy(xml_uri) THEN "True" ELSE "False"]
        d2 == IF has_error(err) THEN [d1 EXCEPT !.sync_failure = Len(fs1)] ELSE d1
        d3 == [d2 EXCEPT !.updated_by = user, !.updated = now]
    IN  /\ calls < MaxCalls
        /\ calls' = calls + 1
        /\ failures' = fs1
        /\ docs' = [docs EXCEPT ![id] = d3]
        /\ last' = [op |-> "set_synchronized", id |-> id]
        /\ UNCHANGED <<versions, journals, issues, bad_requests, relateds, now, procs>>

\* a second passes
Tick ==
    /\ now < MaxClock
    /\ now' = now + 1
    /\ UNCHANGED <<store, calls, last, procs>>

Next ==
    \/ \E x \in XMLInputs, f \in Filenames, u \in Users :
           Register(x, f, u, None, NoError)
    \/ \E id \in 1..Len(docs), u \in Users, outcome \in RemoteOutcomes :
           SetSynchronized(id, u, outcome[1], outcome[2])
    \/ Tick

Spec == Init /\ [][Next]_vars

(***************************************************************************)
(* Calls in progress at the same time.  register runs in no transaction    *)
(* and takes no lock, so another call can read or write the tables between *)
(* two of its queries.  A call in progress keeps the instances it has read *)
(* in memory; a step is one stage of register with the queries it makes.   *)
(***************************************************************************)
\* the documents registered side by side: those whose XML brings no pid
ConcInputs == { x \in XMLInputs : x.v2 = None /\ x.v3 = None /\ x.abstract = "A" }

\* the table as the call sees it: its own instance of the row it resolved
seen(q) ==
    IF q.registered # NULL THEN [docs EXCEPT ![q.registered] = q.row] ELSE docs

\* PidRequesterXML.register is entered
Begin(p, x, filename, user) ==
    /\ procs[p].pc = "idle"
    /\ calls < MaxCalls
    /\ calls' = calls + 1
    /\ procs' = [procs EXCEPT ![p] = [pc |-> "query", xml |-> x,
                                      filename |-> filename, user |-> user]]
    /\ UNCHANGED <<store, now, last>>

\* register: _query_document and evaluate_registration
QueryStep(p) ==
    LET c == procs[p]
        q == _query_document(c.xml, docs, journals, issues)
    IN  /\ c.pc = "query"
        /\ IF q.error # None
           THEN /\ register_bad_request(c.xml, c.filename, c.user, NULL, q.error)
                /\ procs' = [procs EXCEPT ![p] = Idle]
           ELSE IF ~evaluate_registration(c.xml, q.registered, docs)
           THEN /\ register_bad_request(c.xml, c.filename, c.user, q.registered,
                                        "ForbiddenPidRequesterXMLRegistrationError")
                /\ procs' = [procs EXCEPT ![p] = Idle]
           ELSE /\ procs' = [procs EXCEPT ![p] =
                      [pc |-> "complete", xml |-> c.xml, filename |-> c.filename,
                       user |-> c.user, registered |-> q.registered,
                       row |-> IF q.registered # NULL THEN docs[q.registered]
                               ELSE NewDocument]]
                /\ UNCHANGED <<store, last>>
        /\ UNCHANGED <<now, calls>>

\* register: _complete_pids
CompletePidsStep(p) ==
    LET q == procs[p]
    IN  /\ q.pc = "complete"
        /\ \E gen_v3 \in (IF v3_is_generated(q.xml, q.registered, seen(q))
                          THEN _get_unique_v3(docs) ELSE {None}) :
           \E gen_v2 \in (IF v2_is_generated(q.xml, q.registered, seen(q))
                          THEN _get_unique_v2(q.xml, docs, now) ELSE {None}) :
               LET c == _complete_pids(q.xml, q.registered, seen(q), gen_v3, gen_v2)
               IN  IF ~c.ok
                   THEN /\ procs' = [procs EXCEPT ![p] = Idle]
                        /\ last' = [ op |-> "register", xml |-> q.xml,
                                     registered |-> q.registered,
                                     outcome |-> "raised", repeat |-> FALSE,
                                     result |-> [raised |-> "ValueError"] ]
                   ELSE /\ procs' = [procs EXCEPT ![p] =
                               [q EXCEPT !.pc = "save", !.xml = c.xml]
                                  @@ [given |-> q.xml, changed |-> c.changed]]
                        /\ UNCHANGED last
        /\ UNCHANGED <<store, now, calls>>

\* register: _save and the result
SaveStep(p, synchronized, err) ==
    LET q == procs[p]
        s == _save(q.registered, q.xml, q.user, pkg_name_of(q.filename),
                   tostring(q.xml), finger_print(q.xml), synchronized, err,
                   seen(q), versions, journals, issues, failures, relateds, now)
    IN  /\ q.pc = "save"
        /\ docs' = s.docs
        /\ versions' = s.versions
        /\ journals' = s.journals
        /\ issues' = s.issues
        /\ failures' = s.failures
        /\ relateds' = s.relateds
        /\ last' = [ op |-> "register", xml |-> q.given, registered |-> q.registered,
                     outcome |-> "accepted", id |-> s.id, repeat |-> FALSE,
                     result |-> data(s.docs[s.id], s.failures)
                                  @@ [xml_changed |-> q.changed] ]
        /\ procs' = [procs EXCEPT ![p] = Idle]
        /\ UNCHANGED <<bad_requests, now, calls>>

NextConc ==
    \/ \E p \in Procs, x \in ConcInputs, f \in Filenames, u \in Users :
           Begin(p, x, f, u)
    \/ \E p \in Procs : QueryStep(p)
    \/ \E p \in Procs : CompletePidsStep(p)
    \/ \E p \in Procs : SaveStep(p, None, NoError)
    \/ Tick

SpecConc == Init /\ [][NextConc]_vars

(***************************************************************************)
(* validate_query_params, called on its own                                *)
(***************************************************************************)
TierKeys ==
    { "journal__issn_print", "journal__issn_electronic", "article_pub_year",
      "issue__pub_year", "main_doi", "fpage", "elocation_id", "z_surnames",
      "z_collab", "z_links", "pkg_name", "z_partial_body", "z_article_titles_texts" }

\* the dicts validated: every key with None or a value, and dicts with empty
\* strings or without keys
TierInputs ==
    [TierKeys -> {None, "data"}]
      \cup { [k \in {"journal__issn_print", "article_pub_year", "pkg_name"} |-> "data"],
             [k \in {"journal__issn_electronic", "issue__pub_year", "fpage"} |-> "data"],
             [k \in {"journal__issn_print", "article_pub_year", "z_partial_body"} |-> "data"],
             [k \in {"article_pub_year", "main_doi"} |-> "data"],
             [k \in TierKeys |-> ""],
             [k \in TierKeys |-> IF k = "main_doi" THEN "" ELSE "data"] }

InitValidate ==
    /\ docs = <<>>
    /\ versions = <<>>
    /\ journals = <<>>
    /\ issues = <<>>
    /\ failures = <<>>
    /\ bad_requests = <<>>
    /\ relateds = {}
    /\ now = 1
    /\ calls = 0
    /\ last \in { [op |-> "input", params |-> p] : p \in TierInputs }
    /\ procs = [p \in Procs |-> Idle]

\* PidRequesterXML.validate_query_params(query_params)
ValidateQueryParams ==
    /\ last.op = "input"
    /\ last' = [ op |-> "validate_query_params", params |-> last.params,
                 result |-> validate_query_params(last.params) ]
    /\ UNCHANGED <<store, now, calls, procs>>

NextValidate == ValidateQueryParams

SpecValidate == InitValidate /\ [][NextValidate]_vars

(***************************************************************************)
(* Registration with the caller's remote outcome, and registration demand  *)
(***************************************************************************)
\* the documents submitted: one article without and with identifiers, with a
\* changed abstract, in two issues, and an article known only by its first page
SyncInputs ==
    { XML("1234-5678", "10.1/X", None, NoIds, "A"),
      XML("1234-5678", "10.1/X", None, XmlIds, "A"),
      XML("1234-5678", "10.1/X", None, XmlIds, "B"),
      XML("1234-5678", "10.1/X", "10", XmlIds, "A"),
      XML("1234-5678", "10.1/X", "11", NoIds, "B"),
      [XML("1234-5678", None, "10", NoIds, "B") EXCEPT !.fpage = "1"] }

ErrorTypeOnly == [error_msg |-> None, error_type |-> "error_type", traceback |-> None]

\* (synchronized, error details) as passed to register
RegisterArgs ==
    { <<"True", NoError>>, <<"True", ErrorTypeOnly>>, <<None, RemoteError>> }

\* PidRequesterXML.check_registration_demand
CheckRegistrationDemand(x) ==
    /\ calls < MaxCalls
    /\ calls' = calls + 1
    /\ last' = [ op |-> "check_registration_demand", xml |-> x,
                 result |-> check_registration_demand(x, docs, versions, journals,
                                                      issues, failures) ]
    /\ UNCHANGED <<store, now, procs>>

\* PidRequesterXML.get_registered
GetRegistered(x) ==
    /\ calls < MaxCalls
    /\ calls' = calls + 1
    /\ last' = [ op |-> "get_registered", xml |-> x,
                 result |-> get_registered(x, docs, journals, issues, failures) ]
    /\ UNCHANGED <<store, now, procs>>

NextSync ==
    \/ \E x \in SyncInputs, f \in Filenames, u \in Users, a \in RegisterArgs :
           Register(x, f, u, a[1], a[2])
    \/ \E id \in 1..Len(docs), u \in Users, outcome \in RemoteOutcomes :
           SetSynchronized(id, u, outcome[1], outcome[2])
    \/ \E x \in SyncInputs : CheckRegistrationDemand(x)
    \/ \E x \in SyncInputs : GetRegistered(x)

SpecSync == Init /\ [][NextSync]_vars

(***************************************************************************)
(* Registration stopped by a persistence failure                           *)
(***************************************************************************)
\* the store writes of _save that come before its last registered.save(), in
\* the order the code makes them
SaveWrites == <<"document", "journal", "issue", "sync_failure", "version">>

\* whether _save makes write number n at all
write_is_made(n, registered, x, fp, err, ds, vs) ==
    CASE SaveWrites[n] = "document" -> registered = NULL
      [] SaveWrites[n] = "issue" ->
            IF Truthy(x.volume) THEN TRUE
            ELSE IF Truthy(x.number) THEN TRUE ELSE Truthy(x.suppl)
      [] SaveWrites[n] = "sync_failure" -> has_error(err)
      [] SaveWrites[n] = "version" ->
            IF registered = NULL THEN TRUE
            ELSE needs_new_version(ds[registered], vs, fp)
      [] OTHER -> TRUE

\* PidRequesterXML._save that raises right after write number cut: the tables
\* hold the rows written up to it, and the assignments to the instance are lost
_save_interrupted(registered, x, user, pkg_name, xml_content, fp, synchronized, err, ds, vs, js, is, fs, rs, t, cut) ==
    LET id == IF registered # NULL THEN registered ELSE Len(ds) + 1
        j  == XMLJournal_get_or_create(js, x.journal_issn_electronic,
                                       x.journal_issn_print)
        new == IF registered = NULL THEN TRUE
               ELSE needs_new_version(ds[registered], vs, fp)
    IN  [ docs |-> IF registered # NULL THEN ds
                   ELSE Append(ds, [NewDocument EXCEPT !.creator = user, !.created = t]),
          journals |-> IF cut >= 2 THEN j.rows ELSE js,
          issues |-> IF cut >= 3 /\ (Truthy(x.volume) \/ Truthy(x.number) \/ Truthy(x.suppl))
                     THEN XMLIssue_get_or_create(is, j.id, x.volume, x.number, x.suppl,
                                                 x.pub_year).rows
                     ELSE is,
          failures |-> IF cut >= 4 /\ has_error(err)
                       THEN Append(fs, SyncFailure_create(err, user, t)) ELSE fs,
          versions |-> IF cut >= 5 /\ new
                       THEN Append(vs, XMLVersion_create(user, id, pkg_name, fp,
                                                         xml_content, t))
                       ELSE vs,
          relateds |-> rs, id |-> id ]

\* the documents submitted: one article ahead of print, with a changed
\* abstract, and in an issue
CrashInputs ==
    { XML("1234-5678", "10.1/X", None, NoIds, "A"),
      XML("1234-5678", "10.1/X", None, NoIds, "B"),
      XML("1234-5678", "10.1/X", "10", NoIds, "A") }

\* PidRequesterXML.register that reaches _save and is stopped by an error of
\* the store right after write number cut
RegisterInterrupted(x, filename, user, synchronized, err, cut) ==
    /\ calls < MaxCalls
    /\ calls' = calls + 1
    /\ \E q \in {_query_document(x, docs, journals, issues)} :
          /\ q.error = None
          /\ evaluate_registration(x, q.registered, docs)
          /\ \E gen_v3 \in (IF v3_is_generated(x, q.registered, docs)
                             THEN _get_unique_v3(docs) ELSE {None}) :
             \E gen_v2 \in (IF v2_is_generated(x, q.registered, docs)
                             THEN _get_unique_v2(x, docs, now) ELSE {None}) :
             \E c \in {_complete_pids(x, q.registered, docs, gen_v3, gen_v2)} :
                 /\ c.ok
                 /\ write_is_made(cut, q.registered, c.xml, finger_print(c.xml),
                                   err, docs, versions)
                 /\ \E s \in {_save_interrupted(q.registered, c.xml, user,
                                                  pkg_name_of(filename), tostring(c.xml),
                                                  finger_print(c.xml), synchronized, err,
                                                  docs, versions, journals, issues,
                                                  failures, relateds, now, cut)} :
                       /\ docs' = s.docs
                       /\ versions' = s.versions
                       /\ journals' = s.journals
                       /\ issues' = s.issues
                       /\ failures' = s.failures
                       /\ relateds' = s.relateds
                       /\ last' = [ op |-> "register", xml |-> x,
                                    registered |-> q.registered, outcome |-> "failed",
                                    id |-> s.id, cut |-> SaveWrites[cut],
                                    result |-> [raised |-> "DatabaseError"] ]
    /\ UNCHANGED <<bad_requests, now, procs>>

NextCrash ==
    \/ \E x \in CrashInputs, f \in Filenames, u \in Users, err \in {NoError, RemoteError} :
           Register(x, f, u, None, err)
    \/ \E x \in CrashInputs, f \in Filenames, u \in Users, err \in {NoError, RemoteError} :
           \E cut \in 1..Len(SaveWrites) : RegisterInterrupted(x, f, u, None, err, cut)

SpecCrash == Init /\ [][NextCrash]_vars

(***************************************************************************)
(* The identifier setters of XMLWithPre, one assignment                    *)
(***************************************************************************)
\* the values assigned: None, empty, shorter and longer than 23 characters,
\* and two of 23 characters
SetterValues ==
    { None, "", "xml_v3", "bad_size_not_23", "S1806-371320220001999990",
      XmlV3, GenV3a }

InitSetter ==
    /\ docs = <<>>
    /\ versions = <<>>
    /\ journals = <<>>
    /\ issues = <<>>
    /\ failures = <<>>
    /\ bad_requests = <<>>
    /\ relateds = {}
    /\ now = 1
    /\ calls = 0
    /\ last \in { [op |-> "input", xml |-> x, value |-> v] :
                     x \in XMLInputs, v \in SetterValues }
    /\ procs = [p \in Procs |-> Idle]

\* xml_with_pre.v2 = value
SetV2 ==
    /\ last.op = "input"
    /\ last' = [ op |-> "set_v2", xml |-> last.xml, value |-> last.value,
                 result |-> set_v2(last.xml, last.value) ]
    /\ UNCHANGED <<store, now, calls, procs>>

\* xml_with_pre.v3 = value
SetV3 ==
    /\ last.op = "input"
    /\ last' = [ op |-> "set_v3", xml |-> last.xml, value |-> last.value,
                 result |-> set_v3(last.xml, last.value) ]
    /\ UNCHANGED <<store, now, calls, procs>>

\* xml_with_pre.aop_pid = value
SetAopPid ==
    /\ last.op = "input"
    /\ last' = [ op |-> "set_aop_pid", xml |-> last.xml, value |-> last.value,
                 result |-> set_aop_pid(last.xml, last.value) ]
    /\ UNCHANGED <<store, now, calls, procs>>

NextSetter == SetV2 \/ SetV3 \/ SetAopPid

SpecSetter == InitSetter /\ [][NextSetter]_vars

(***************************************************************************)
(* xmlsps.xml_sps_lib: the document as text and as a tree                  *)
(***************************************************************************)
\* an article-id node of article-meta
ArticleId(specific_use, text) ==
    [tag |-> "article-id", pub_id_type |-> "publisher-id",
     specific_use |-> specific_use, text |-> text]

\* another child of article-meta
TitleGroup == [tag |-> "title-group", pub_id_type |-> None, specific_use |-> None,
               text |-> ""]

\* the tree of a document: the article-type of the root, whether it has front
\* and article-meta, and the children of article-meta
Tree(article_type, front, meta, children) ==
    [article_type |-> article_type, front |-> front, meta |-> meta,
     children |-> children]

\* how a document is written: as lxml serializes it, with single quotes around
\* attribute values, or with a start and an end tag for an empty element
Styles == {"lxml", "single_quotes", "start_end_tags"}

Attr(name, value, style) ==
    LET q == IF style = "single_quotes" THEN "'" ELSE "\""
    IN  " " \o name \o "=" \o q \o value \o q

Element(tag, attrs, inner, style) ==
    IF inner = "" /\ style # "start_end_tags" THEN "<" \o tag \o attrs \o "/>"
    ELSE "<" \o tag \o attrs \o ">" \o inner \o "</" \o tag \o ">"

render_node(n, style) ==
    IF n.tag = "article-id"
    THEN Element(n.tag, Attr("pub-id-type", n.pub_id_type, style)
                          \o Attr("specific-use", n.specific_use, style),
                 n.text, style)
    ELSE Element(n.tag, "", n.text, style)

RECURSIVE render_nodes(_, _)
render_nodes(nodes, style) ==
    IF nodes = <<>> THEN ""
    ELSE render_node(Head(nodes), style) \o render_nodes(Tail(nodes), style)

\* the text of a tree in a style
render(tree, style) ==
    LET meta == IF tree.meta
                THEN Element("article-meta", "", render_nodes(tree.children, style), style)
                ELSE ""
        front == IF tree.front THEN Element("front", "", meta, style) ELSE ""
    IN  Element("article",
                IF tree.article_type # None
                THEN Attr("article-type", tree.article_type, style) ELSE "",
                front, style)

\* the trees of the documents parsed
Trees ==
    { Tree(None, FALSE, FALSE, <<>>),
      Tree("research-article", FALSE, FALSE, <<>>),
      Tree(None, TRUE, FALSE, <<>>),
      Tree(None, TRUE, TRUE, <<TitleGroup>>),
      Tree("research-article", TRUE, TRUE, <<ArticleId("scielo-v3", XmlV3)>>),
      Tree("research-article", TRUE, TRUE,
           <<ArticleId("scielo-v2", XmlV2), TitleGroup>>) }

\* etree.fromstring: [ok, tree]; ok = FALSE is XMLSyntaxError
etree_fromstring(text) ==
    LET found == { t \in Trees : \E st \in Styles : render(t, st) = text }
    IN  IF found = {} THEN [ok |-> FALSE, tree |-> None]
        ELSE [ok |-> TRUE, tree |-> CHOOSE t \in found : TRUE]

\* etree.tostring(xmltree, encoding="utf-8").decode("utf-8")
etree_tostring(tree) == render(tree, "lxml")

\* str.startswith, str.endswith
startswith(s, p) == Len(s) >= Len(p) /\ SubSeq(s, 1, Len(p)) = p
endswith(s, p) == Len(s) >= Len(p) /\ SubSeq(s, Len(s) - Len(p) + 1, Len(s)) = p

\* str.strip
RECURSIVE lstrip(_)
lstrip(s) ==
    IF s # "" /\ SubSeq(s, 1, 1) \in {" ", "\n", "\t"} THEN lstrip(SubSeq(s, 2, Len(s))) ELSE s
RECURSIVE rstrip(_)
rstrip(s) ==
    IF s # "" /\ SubSeq(s, Len(s), Len(s)) \in {" ", "\n", "\t"}
    THEN rstrip(SubSeq(s, 1, Len(s) - 1)) ELSE s
strip(s) == rstrip(lstrip(s))

\* the positions, from 1, at which p occurs in s
occurrences(s, p) ==
    IF Len(p) > Len(s) THEN {}
    ELSE { i \in 1..(Len(s) - Len(p) + 1) : SubSeq(s, i, i + Len(p) - 1) = p }

\* str.find and str.rfind, counted from 1: 0 is Python's -1
find(s, p) ==
    LET o == occurrences(s, p)
    IN  IF o = {} THEN 0 ELSE CHOOSE i \in o : \A j \in o : i <= j
rfind(s, p) ==
    LET o == occurrences(s, p)
    IN  IF o = {} THEN 0 ELSE CHOOSE i \in o : \A j \in o : i >= j

\* str.replace of one character
RECURSIVE replace(_, _, _)
replace(s, a, b) ==
    IF s = "" THEN ""
    ELSE (IF SubSeq(s, 1, 1) = a THEN b ELSE SubSeq(s, 1, 1))
            \o replace(SubSeq(s, 2, Len(s)), a, b)

\* the return statements under "p = xml_content.find(starttag)" and under
\* "p = xml_content.rfind('<')": p is a position from 1
split_at(xml_content, p) ==
    IF endswith(strip(SubSeq(xml_content, 1, p - 1)), ">")
    THEN <<SubSeq(xml_content, 1, p - 1), SubSeq(xml_content, p, Len(xml_content))>>
    ELSE <<"", xml_content>>

\* split_processing_instruction_doctype_declaration_and_xml: <<pre, xml>>
split_processing_instruction_doctype_declaration_and_xml(content) ==
    LET xml_content == strip(content)
        p_lt == rfind(xml_content, "<")
        p_end == rfind(xml_content, "</")
        endtag == IF p_end = 0 THEN SubSeq(xml_content, Len(xml_content), Len(xml_content))
                  ELSE SubSeq(xml_content, p_end, Len(xml_content))
        starttag1 == replace(replace(endtag, "/", ""), ">", " ")
        starttag2 == replace(endtag, "/", "")
    IN  IF ~startswith(xml_content, "<?") /\ ~startswith(xml_content, "<!")
        THEN <<"", xml_content>>
        ELSE IF endswith(xml_content, "/>") /\ p_lt # 0 THEN split_at(xml_content, p_lt)
        ELSE IF p_end = 1 THEN <<"", xml_content>>
        ELSE IF find(xml_content, starttag1) # 0
        THEN split_at(xml_content, find(xml_content, starttag1))
        ELSE IF find(xml_content, starttag2) # 0
        THEN split_at(xml_content, find(xml_content, starttag2))
        ELSE <<"", xml_content>>

\* get_xml_with_pre: [ok, xmlpre, xmltree]; ok = FALSE is GetXmlWithPreError
get_xml_with_pre(xml_content) ==
    LET s == split_processing_instruction_doctype_declaration_and_xml(xml_content)
        t == etree_fromstring(s[2])
    IN  [ok |-> t.ok, xmlpre |-> s[1], xmltree |-> t.tree]

\* XMLWithPre.tostring on the text and the tree
XMLWithPre_tostring(xmlpre, xmltree) == xmlpre \o etree_tostring(xmltree)

\* what comes before the root element: nothing, an XML declaration, a doctype
\* declaration, both, with and without line breaks
Preambles ==
    { "", "<?xml version=\"1.0\" encoding=\"utf-8\"?>",
      "<?xml version=\"1.0\" encoding=\"utf-8\"?>\n",
      "<!DOCTYPE article>",
      "<?xml version=\"1.0\" encoding=\"utf-8\"?>\n<!DOCTYPE article>\n" }

\* a well-formed document to parse: a preamble, the root element in one of the
\* styles, and nothing or a line break after it
InitRoundTrip ==
    /\ docs = <<>>
    /\ versions = <<>>
    /\ journals = <<>>
    /\ issues = <<>>
    /\ failures = <<>>
    /\ bad_requests = <<>>
    /\ relateds = {}
    /\ now = 1
    /\ calls = 0
    /\ last \in { [op |-> "input", xml_content |-> pre \o render(t, st) \o trail] :
                    pre \in Preambles, t \in Trees, st \in Styles, trail \in {"", "\n"} }
    /\ procs = [p \in Procs |-> Idle]

\* get_xml_with_pre(xml_content).tostring()
GetXmlWithPre ==
    /\ last.op = "input"
    /\ \E r \in {get_xml_with_pre(last.xml_content)} :
          last' = [ op |-> "get_xml_with_pre", xml_content |-> last.xml_content,
                    raised |-> ~r.ok, xmlpre |-> r.xmlpre,
                    result |-> IF r.ok THEN XMLWithPre_tostring(r.xmlpre, r.xmltree)
                               ELSE "GetXmlWithPreError" ]
    /\ UNCHANGED <<store, now, calls, procs>>

NextRoundTrip == GetXmlWithPre

SpecRoundTrip == InitRoundTrip /\ [][NextRoundTrip]_vars

(***************************************************************************)
(* _query_document over query plans                                        *)
(***************************************************************************)
\* items of a query list: by DOI, by journal and year alone for an article
\* ahead of print, and the item of test_query_document_raises_error
Tiers ==
    { [ main_doi |-> doi, journal__issn_electronic |-> "1234-5678",
        article_pub_year |-> "2021" ] : doi \in {"10.1/X", "10.1/Y", "10.1/Z"} }
    \cup { [ issue__isnull |-> "True", journal__issn_electronic |-> "1234-5678",
             article_pub_year |-> "2021" ],
           [ key |-> "value" ] }

\* the query lists resolved: one or two items
Plans == { <<t>> : t \in Tiers } \cup { <<t1, t2>> : t1 \in Tiers, t2 \in Tiers }

\* the documents registered before a query list is resolved
PlanInputs ==
    { XML("1234-5678", "10.1/X", None, NoIds, "A"),
      XML("1234-5678", "10.1/X", None, XmlIds, "A"),
      XML("1234-5678", "10.1/Y", None, NoIds, "A") }

\* PidRequesterXML._query_document(xml_adapter) for a query list
QueryDocument(plan) ==
    /\ calls < MaxCalls
    /\ calls' = calls + 1
    /\ last' = [ op |-> "_query_document", plan |-> plan,
                 result |-> query_tiers(plan, 1, docs, journals, issues) ]
    /\ UNCHANGED <<store, now, procs>>

NextPlan ==
    \/ \E x \in PlanInputs, f \in Filenames, u \in Users :
           Register(x, f, u, None, NoError)
    \/ \E plan \in Plans : QueryDocument(plan)

SpecPlan == Init /\ [][NextPlan]_vars

(***************************************************************************)
(* The retry loops of _get_unique_v2 and _get_unique_v3, statement by      *)
(* statement, while other callers register documents                       *)
(***************************************************************************)
\* the document whose v2 is allocated
AllocXml == XML("1234-5678", "10.1/Z", None, NoIds, "A")

\* utcnow() one second later; the five digits come round again
TickAround ==
    /\ now' = IF now >= MaxClock THEN 1 ELSE now + 1
    /\ UNCHANGED <<store, calls, last, procs>>

\* _add_pid_v3 enters _get_unique_v3
StartV3(p) ==
    /\ procs[p].pc = "idle"
    /\ procs' = [procs EXCEPT ![p] = [ pc |-> "v3_generate", xml |-> AllocXml,
                                       generated |-> None, collided |-> FALSE,
                                       v3 |-> None, v3_retried |-> FALSE,
                                       v2_retried |-> FALSE ]]
    /\ UNCHANGED <<store, now, calls, last>>

\* generated = v3_gen.generates()
V3Generate(p, g) ==
    /\ procs[p].pc = "v3_generate"
    /\ procs' = [procs EXCEPT ![p].pc = "v3_check", ![p].generated = g,
                              ![p].v3_retried = @ \/ procs[p].collided]
    /\ UNCHANGED <<store, now, calls, last>>

\* if not cls._is_registered_pid(v3=generated): return generated
V3Check(p) ==
    /\ procs[p].pc = "v3_check"
    /\ IF _is_registered_pid(docs, None, procs[p].generated, None)
       THEN procs' = [procs EXCEPT ![p].pc = "v3_generate", ![p].collided = TRUE]
       ELSE procs' = [procs EXCEPT ![p].pc = "v3_returned", ![p].v3 = procs[p].generated]
    /\ UNCHANGED <<store, now, calls, last>>

\* _add_pid_v2 enters _get_unique_v2
StartV2(p) ==
    /\ procs[p].pc = "v3_returned"
    /\ procs' = [procs EXCEPT ![p].pc = "v2_generate", ![p].generated = None,
                              ![p].collided = FALSE]
    /\ UNCHANGED <<store, now, calls, last>>

\* generated = cls._v2_generates(xml_adapter)
V2Generate(p) ==
    /\ procs[p].pc = "v2_generate"
    /\ \E g \in {_v2_generates(procs[p].xml, now)} :
          procs' = [procs EXCEPT ![p].pc = "v2_check", ![p].generated = g,
                                 ![p].v2_retried = @ \/ (procs[p].collided
                                                           /\ g = procs[p].generated)]
    /\ UNCHANGED <<store, now, calls, last>>

\* if not cls._is_registered_pid(v2=generated): return generated
V2Check(p) ==
    /\ procs[p].pc = "v2_check"
    /\ IF _is_registered_pid(docs, procs[p].generated, None, None)
       THEN procs' = [procs EXCEPT ![p].pc = "v2_generate", ![p].collided = TRUE]
       ELSE procs' = [procs EXCEPT ![p].pc = "v2_returned"]
    /\ UNCHANGED <<store, now, calls, last>>

\* the loop of p generates, at the second shown, a value not registered
V2GenerateFree(p) ==
    /\ ~_is_registered_pid(docs, _v2_generates(AllocXml, now), None, None)
    /\ V2Generate(p)

NextAlloc ==
    \/ \E f \in Filenames, u \in Users :
           Register(XML("1234-5678", "10.1/X", None, NoIds, "A"), f, u, None, NoError)
    \/ TickAround
    \/ StartV3("p1")
    \/ \E g \in V3Pool : V3Generate("p1", g)
    \/ V3Check("p1")
    \/ StartV2("p1")
    \/ V2Generate("p1")
    \/ V2Check("p1")

\* the clock goes on; a caller that entered a loop goes on running it; the loop
\* of v2 runs many times within a second, so it comes to generate in every
\* second of the period and generates in it; the generator of v3 gives every
\* value again and again
FairAlloc ==
    /\ WF_vars(TickAround)
    /\ \A g \in V3Pool : SF_vars(V3Generate("p1", g))
    /\ WF_vars(V3Check("p1"))
    /\ WF_vars(StartV2("p1"))
    /\ WF_vars(V2Generate("p1"))
    /\ \A t \in 1..MaxClock :
          []<>(procs["p1"].pc \in {"v2_generate", "v2_check"}
                 => now = t /\ procs["p1"].pc = "v2_generate")
    /\ SF_vars(V2GenerateFree("p1"))
    /\ WF_vars(V2Check("p1"))

SpecAlloc == Init /\ [][NextAlloc]_vars /\ FairAlloc

(***************************************************************************)
(* XMLWithPre: the identifier setters on the tree                          *)
(***************************************************************************)
\* the specific-use of the article-id of a slot
SpecificUse == [v2 |-> "scielo-v2", v3 |-> "scielo-v3", aop_pid |-> "previous-pid"]

\* whether a node is what the xpath of the setter of a slot selects
is_slot_node(n, slot) ==
    /\ n.tag = "article-id"
    /\ n.specific_use = SpecificUse[slot]
    /\ slot = "aop_pid" => n.pub_id_type = "publisher-id"

\* the positions of the nodes of a slot
slot_nodes(tree, slot) ==
    { i \in 1..Len(tree.children) : is_slot_node(tree.children[i], slot) }

\* the xpath of a setter that finds nothing
first_slot_node_none(tree, slot) == 0

\* xmltree.xpath(...)[0]: the position of the first node of a slot, 0 for
\* IndexError
first_slot_node(tree, slot) ==
    IF slot_nodes(tree, slot) = {} THEN 0
    ELSE CHOOSE i \in slot_nodes(tree, slot) : \A j \in slot_nodes(tree, slot) : i <= j

\* list.insert(1, node)
insert_1(children, node) ==
    IF children = <<>> THEN <<node>>
    ELSE <<Head(children), node>> \o Tail(children)

\* the setter of a slot: [ok, xmltree]; ok = FALSE is ValueError.  The node
\* found gets the text; else a node is made and inserted in article_id_parent,
\* which makes front and article-meta when they are not there
assign(tree, slot, value) ==
    IF ~setter_accepts(value) THEN [ok |-> FALSE, xmltree |-> tree]
    ELSE LET i == first_slot_node(tree, slot)
         IN  IF i # 0
             THEN [ok |-> TRUE,
                   xmltree |-> [tree EXCEPT !.children[i].text = value]]
             ELSE [ok |-> TRUE,
                   xmltree |-> [tree EXCEPT
                       !.front = TRUE, !.meta = TRUE,
                       !.children = insert_1(tree.children,
                                             ArticleId(SpecificUse[slot], value))]]

\* a document parsed, with and without a declaration and a doctype
InitAssign ==
    /\ docs = <<>>
    /\ versions = <<>>
    /\ journals = <<>>
    /\ issues = <<>>
    /\ failures = <<>>
    /\ bad_requests = <<>>
    /\ relateds = {}
    /\ now = 1
    /\ calls = 0
    /\ last \in { [op |-> "get_xml_with_pre", xmlpre |-> r.xmlpre, xmltree |-> r.xmltree] :
                    r \in { get_xml_with_pre(pre \o render(t, "lxml")) :
                              pre \in {"", "<?xml version=\"1.0\" encoding=\"utf-8\"?>\n<!DOCTYPE article>\n"}, t \in Trees } }
    /\ procs = [p \in Procs |-> Idle]

\* xml_with_pre.v2 = value, xml_with_pre.v3 = value, xml_with_pre.aop_pid = value
Assign(slot, value) ==
    /\ calls < MaxCalls
    /\ calls' = calls + 1
    /\ \E r \in {assign(last.xmltree, slot, value)} :
          last' = [ op |-> "assign", slot |-> slot, value |-> value, raised |-> ~r.ok,
                    xmlpre |-> last.xmlpre, xmltree |-> r.xmltree ]
    /\ UNCHANGED <<store, now, procs>>

NextAssign == \E slot \in DOMAIN SpecificUse, value \in {XmlV2, GenV3a, "bad_size_not_23"} : Assign(slot, value)

SpecAssign == InitAssign /\ [][NextAssign]_vars

(***************************************************************************)
(* Properties                                                              *)
(***************************************************************************)
Forbidden == "ForbiddenPidRequesterXMLRegistrationError"

\* this step is a call of register that returned
RegisterStep == calls' = calls + 1 /\ last'.op = "register"
\* this step is a call of register that was accepted and saved
AcceptedStep == RegisterStep /\ last'.outcome = "accepted"

DocIds == 1..Len(docs)
pids(d) == <<d.v2, d.v3, d.aop_pid>>
versions_of(i) == { v \in 1..Len(versions) : versions[v].pid_requester_xml = i }

\* C1: evaluate_registration raises ForbiddenPidRequesterXMLRegistrationError
\* exactly when the incoming document is ahead of print and the resolved record
\* exists and is attached to an issue; in every other case it accepts.
C1_EvaluateRegistration ==
    [][ RegisterStep =>
          ( (last'.outcome = "bad_request" /\ last'.result.error_type = Forbidden)
            <=> ( /\ is_aop(last'.xml)
                  /\ last'.registered # NULL
                  /\ docs[last'.registered].issue # NULL ) ) ]_vars

\* an ahead-of-print document was refused over a record attached to an issue
C1_Witness ==
    /\ last.op = "register"
    /\ last.outcome = "bad_request"
    /\ last.result.error_type = Forbidden
    /\ is_aop(last.xml)
    /\ docs[last.registered].issue # NULL

\* C2: once a Document's issue is set it is never NULL again, over register and
\* set_synchronized called one at a time.
C2_IssueNeverCleared ==
    [][ \A i \in DocIds : docs[i].issue # NULL => docs'[i].issue # NULL ]_vars

\* a record attached to an issue was registered again, or refused an AOP
C2_Witness ==
    /\ last.op = "register"
    /\ last.registered # NULL
    /\ docs[last.registered].issue # NULL
    /\ docs[last.registered].updated # NULL
    /\ calls = MaxCalls

\* C3: a v2, v3 or aop_pid held by a Document is left unchanged by every later
\* accepted registration, whatever identifiers the incoming XML carries.
C3_PidsSticky ==
    [][ \A i \in DocIds :
          /\ Truthy(docs[i].v3) => docs'[i].v3 = docs[i].v3
          /\ Truthy(docs[i].v2) => docs'[i].v2 = docs[i].v2
          /\ Truthy(docs[i].aop_pid) => docs'[i].aop_pid = docs[i].aop_pid ]_vars

\* an accepted registration over an existing record whose XML carried other,
\* well-formed identifiers
C3_Witness ==
    /\ last.op = "register"
    /\ last.outcome = "accepted"
    /\ last.registered # NULL
    /\ _is_valid_pid(last.xml.v3) /\ last.xml.v3 # docs[last.id].v3
    /\ _is_valid_pid(last.xml.v2) /\ last.xml.v2 # docs[last.id].v2

\* C4: no two Documents hold the same v3.
C4_UniqueV3 ==
    \A i, j \in DocIds : i # j /\ Truthy(docs[i].v3) => docs[i].v3 # docs[j].v3

\* a new document arrived with a well-formed v3 another Document holds and
\* was given another one
C4_Witness ==
    /\ last.op = "register"
    /\ last.outcome = "accepted"
    /\ last.registered = NULL
    /\ _is_valid_pid(last.xml.v3)
    /\ last.result.v3 # last.xml.v3
    /\ \E i \in DocIds : docs[i].v3 = last.xml.v3

\* C5: no two Documents hold the same v2, also when the XML of a new document
\* carries a 23-character v2.
C5_UniqueV2 ==
    \A i, j \in DocIds : i # j /\ Truthy(docs[i].v2) => docs[i].v2 # docs[j].v2

\* C6: every Document written by a registration has a v2 and a v3 of 23
\* characters and an aop_pid that is unset or of 23 characters.
C6_PidShape ==
    \A i \in DocIds :
        /\ _is_valid_pid(docs[i].v2)
        /\ _is_valid_pid(docs[i].v3)
        /\ Truthy(docs[i].aop_pid) => Len(docs[i].aop_pid) = PidLen

\* C7: registering the same XML again right after it was accepted changes no
\* identifier, adds no Document and no XMLVersion and leaves every
\* current_version as it is.
C7_Idempotent ==
    [][ RegisterStep /\ last'.outcome # "bad_request" /\ last'.repeat =>
          /\ Len(docs') = Len(docs)
          /\ versions' = versions
          /\ \A i \in DocIds :
                /\ pids(docs'[i]) = pids(docs[i])
                /\ docs'[i].current_version = docs[i].current_version ]_vars

\* the same XML was registered twice in a row and accepted both times
C7_Witness ==
    /\ last.op = "register"
    /\ last.outcome = "accepted"
    /\ last.repeat
    /\ last.registered # NULL

\* C8: record_status is "created" for a new record, "updated" when an
\* identifier or the version of the resolved record changed, "retrieved"
\* otherwise.
C8_RecordStatus ==
    [][ AcceptedStep =>
          LET r == last'.registered
          IN  last'.result.record_status =
                IF r = NULL THEN "created"
                ELSE IF \/ pids(docs'[r]) # pids(docs[r])
                        \/ docs'[r].current_version # docs[r].current_version
                     THEN "updated"
                     ELSE "retrieved" ]_vars

\* C9: an accepted registration adds an XMLVersion, owned by the Document and
\* made current, exactly when the Document had no current version or another
\* finger print; afterwards the current version has the finger print of the
\* content registered.
C9_CurrentVersion ==
    [][ AcceptedStep =>
          LET r  == last'.registered
              d  == docs'[last'.id]
              fp == finger_print([last'.xml EXCEPT !.v2 = d.v2, !.v3 = d.v3,
                                                   !.aop_pid = d.aop_pid])
              stale == \/ r = NULL
                       \/ docs[r].current_version = NULL
                       \/ versions[docs[r].current_version].finger_print # fp
          IN  /\ d.current_version # NULL
              /\ versions'[d.current_version].finger_print = fp
              /\ versions'[d.current_version].pid_requester_xml = last'.id
              /\ IF stale
                 THEN /\ Len(versions') = Len(versions) + 1
                      /\ d.current_version = Len(versions')
                      /\ SubSeq(versions', 1, Len(versions)) = versions
                 ELSE /\ versions' = versions
                      /\ d.current_version = docs[r].current_version ]_vars

\* a Document whose content changed: it owns two versions, the later current
C9_Witness ==
    \E i \in DocIds :
        /\ Cardinality(versions_of(i)) >= 2
        /\ last.op = "register" /\ last.outcome = "accepted" /\ last.id = i
        /\ docs[i].current_version = Len(versions)

\* C10: two registrations of different new documents whose steps interleave
\* never both commit Documents with the same v3 or the same v2.
C10_ConcurrentUnique ==
    \A i, j \in DocIds :
        i # j /\ docs[i].main_doi # docs[j].main_doi =>
            /\ docs[i].v3 # docs[j].v3
            /\ docs[i].v2 # docs[j].v2

\* the Documents that match tier n of the query list of x
tier_matches(x, n) == Filter(docs, query_list(x)[n], journals, issues)

\* C11: two registrations of the same logical document whose steps interleave
\* do not both create a Document: the store never holds two Documents that
\* match the same tier of a submitted document.
C11_NoDuplicateDocument ==
    \A x \in ConcInputs : \A n \in 1..Len(query_list(x)) :
        Cardinality(tier_matches(x, n)) <= 1

\* the first tier of x with a match, 0 when no tier has one
first_hit(x) ==
    LET tiers == query_list(x)
        hits  == { n \in 1..Len(tiers) : Filter(docs, tiers[n], journals, issues) # {} }
    IN  IF hits = {} THEN 0 ELSE CHOOSE n \in hits : \A m \in hits : n <= m

\* whether the tiers 1..n of x pass validate_query_params
tiers_valid(x, n) == \A k \in 1..n : validate_query_params(query_list(x)[k])

MultipleObjects == "QueryDocumentMultipleObjectsReturnedError"

\* C12: _query_document evaluates the tiers in list order, returns the single
\* match of the first tier that has exactly one match without querying a later
\* tier, and returns none when every tier has no match.
C12_FirstMatchWins ==
    [][ RegisterStep =>
          \A x \in {last'.xml} : \A h \in {first_hit(x)} :
              IF h = 0
              THEN tiers_valid(x, Len(query_list(x))) =>
                     /\ _query_document(x, docs, journals, issues) =
                           [error |-> None, registered |-> NULL,
                            queried |-> Len(query_list(x))]
                     /\ last'.registered = NULL
                     /\ last'.outcome # "bad_request"
              ELSE \A found \in {tier_matches(x, h)} :
                     tiers_valid(x, h) /\ Cardinality(found) = 1 =>
                       /\ _query_document(x, docs, journals, issues) =
                             [error |-> None, queried |-> h,
                              registered |-> CHOOSE i \in found : TRUE]
                       /\ last'.registered \in found ]_vars

\* a document in an issue was resolved by its second tier: the row it resolved
\* had no issue, so the first tier had no match
C12_Witness ==
    /\ last.op = "register"
    /\ last.outcome = "accepted"
    /\ last.registered # NULL
    /\ Len(query_list(last.xml)) = 2
    /\ \E v \in versions_of(last.id) : is_aop(versions[v].file)

\* C13: when a tier matches more than one Document, resolution raises
\* QueryDocumentMultipleObjectsReturnedError: it returns no Document, takes none
\* of the matches and does not go on to a later tier.
C13_AmbiguousMatch ==
    [][ RegisterStep =>
          \A x \in {last'.xml} : \A h \in {first_hit(x)} :
              h > 0 /\ tiers_valid(x, h) /\ Cardinality(tier_matches(x, h)) > 1 =>
                  /\ _query_document(x, docs, journals, issues) =
                        [error |-> MultipleObjects, registered |-> NULL, queried |-> h]
                  /\ last'.outcome = "bad_request"
                  /\ last'.result.error_type = MultipleObjects
                  /\ last'.registered = NULL
                  /\ docs' = docs ]_vars

\* a registration ended in QueryDocumentMultipleObjectsReturnedError over two
\* Documents that match its tier
C13_Witness ==
    /\ last.op = "register"
    /\ last.outcome = "bad_request"
    /\ last.result.error_type = MultipleObjects
    /\ Cardinality(tier_matches(last.xml, last.queried)) > 1

\* whether a dict has a non-empty value under one of the keys
has_any(params, keys) == \E k \in keys : k \in DOMAIN params /\ params[k] \notin {None, ""}

\* C14: validate_query_params returns True exactly when the dict has a journal
\* issn, a publication year of the article or the issue, and a strong (main_doi,
\* fpage, elocation_id) or a weak (z_surnames, z_collab, z_links, pkg_name)
\* discriminator; otherwise it raises
\* NotEnoughParametersToGetDocumentRecordError.
C14_ValidateQueryParams ==
    last.op = "validate_query_params" =>
        ( last.result
          <=> /\ has_any(last.params, {"journal__issn_print", "journal__issn_electronic"})
              /\ has_any(last.params, {"article_pub_year", "issue__pub_year"})
              /\ \/ has_any(last.params, {"main_doi", "fpage", "elocation_id"})
                 \/ has_any(last.params, {"z_surnames", "z_collab", "z_links", "pkg_name"}) )

\* a dict with journal, year and pkg_name alone was accepted
C14_Witness ==
    /\ last.op = "validate_query_params"
    /\ last.result
    /\ has_any(last.params, {"pkg_name"})
    /\ ~has_any(last.params, TierKeys \ {"journal__issn_print", "journal__issn_electronic",
                                         "article_pub_year", "issue__pub_year", "pkg_name"})

NotEnough == "NotEnoughParametersToGetDocumentRecordError"

\* C15: when register ends in ForbiddenPidRequesterXMLRegistrationError,
\* NotEnoughParametersToGetDocumentRecordError or
\* QueryDocumentMultipleObjectsReturnedError it does not raise: it returns the
\* payload of the bad request, with exactly the keys error_type, error_message,
\* id (the finger print) and filename, and leaves the Documents, XMLVersions,
\* journals, issues and related items as they were.
C15_BadRequestFrame ==
    [][ RegisterStep =>
          \A x \in {last'.xml} :
          \A q \in {_query_document(x, docs, journals, issues)} :
          \A rejected \in { \/ q.error # None
                            \/ ~evaluate_registration(x, q.registered, docs) } :
              /\ rejected <=> last'.outcome = "bad_request"
              /\ rejected =>
                   /\ DOMAIN last'.result =
                         {"error_type", "error_message", "id", "filename"}
                   /\ last'.result.error_type \in {Forbidden, NotEnough, MultipleObjects}
                   /\ last'.result.error_type = IF q.error # None THEN q.error ELSE Forbidden
                   /\ last'.result.id = finger_print(x)
                   /\ last'.result.filename \in Filenames
                   /\ docs' = docs /\ versions' = versions /\ journals' = journals
                   /\ issues' = issues /\ relateds' = relateds ]_vars

\* a registration was refused for want of parameters over a store with
\* Documents
C15_Witness ==
    /\ last.op = "register"
    /\ last.outcome = "bad_request"
    /\ last.result.error_type = NotEnough
    /\ Len(docs) > 0 /\ Len(versions) > 0

\* the bad requests with the finger print fp
bad_requests_of(bs, fp) == { i \in 1..Len(bs) : bs[i].finger_print = fp }

\* C16: the store holds at most one bad request per finger print: rejecting
\* the same content again overwrites the error type, error message, file name
\* and XML of its record instead of adding a record.
C16_OneBadRequestPerFingerPrint ==
    [][ /\ \A i, j \in 1..Len(bad_requests') :
              i # j => bad_requests'[i].finger_print # bad_requests'[j].finger_print
        /\ RegisterStep /\ last'.outcome = "bad_request" =>
              LET fp  == finger_print(last'.xml)
                  old == bad_requests_of(bad_requests, fp)
                  new == bad_requests_of(bad_requests', fp)
              IN  /\ Cardinality(new) = 1
                  /\ old # {} => new = old /\ Len(bad_requests') = Len(bad_requests)
                  /\ old = {} => Len(bad_requests') = Len(bad_requests) + 1
                  /\ \A i \in 1..Len(bad_requests) :
                        i \notin old => bad_requests'[i] = bad_requests[i]
                  /\ \A i \in new :
                        /\ bad_requests'[i].error_type = last'.result.error_type
                        /\ bad_requests'[i].error_message = last'.result.error_message
                        /\ bad_requests'[i].basename = last'.result.filename
                        /\ bad_requests'[i].xml = tostring(last'.xml) ]_vars

\* one content was rejected twice, the two rejections being the only calls
\* after the registration of the Document, and the store has one bad request
C16_Witness ==
    /\ last.op = "register"
    /\ last.outcome = "bad_request"
    /\ last.result.error_type = Forbidden
    /\ calls = 3
    /\ Len(docs) = 1 /\ docs[1].updated = NULL
    /\ Len(bad_requests) = 1

\* C17: a registration that fails with
\* NotEnoughParametersToGetDocumentRecordError fails before it has made any
\* query or write against the store.
C17_NotEnoughBeforeStoreAccess ==
    last.op = "register" /\ last.outcome = "bad_request"
        /\ last.result.error_type = NotEnough
    => last.queried = 0

\* C18: an accepted registration that resolves a Document with a non-empty
\* aop_pid leaves the Document with that aop_pid; when the resolved Document
\* has none (or none is resolved), the aop_pid of the incoming XML is stored
\* as supplied and is not cleared.
C18_AopPidCarryOver ==
    [][ AcceptedStep =>
          LET r == last'.registered
              d == docs'[last'.id]
          IN  /\ d.aop_pid = IF r # NULL /\ Truthy(docs[r].aop_pid)
                             THEN docs[r].aop_pid
                             ELSE last'.xml.aop_pid
              /\ last'.result.aop_pid = d.aop_pid
              /\ versions'[d.current_version].file.aop_pid = d.aop_pid ]_vars

\* a document in an issue, without aop_pid in its XML, was registered over a
\* Document ahead of print and the Document keeps 12345678901234567890aop
C18_Witness ==
    /\ last.op = "register"
    /\ last.outcome = "accepted"
    /\ last.registered # NULL
    /\ ~is_aop(last.xml)
    /\ last.xml.aop_pid = None
    /\ docs[last.id].aop_pid = XmlAop
    /\ \E v \in versions_of(last.id) : is_aop(versions[v].file)

\* C19: without a resolved record _add_pid_v3 keeps the v3 of the XML exactly
\* when it has 23 characters and no Document holds it, and otherwise replaces
\* it by a new v3 that no Document holds; with a resolved record the v3 of the
\* XML is replaced by the v3 of that record.
C19_AddPidV3 ==
    [][ AcceptedStep =>
          LET r  == last'.registered
              v3 == last'.xml.v3
              d  == docs'[last'.id]
              held(v) == \E i \in DocIds : docs[i].v3 = v
              fit  == Truthy(v3) /\ Len(v3) = PidLen
          IN  /\ r # NULL => d.v3 = docs[r].v3
              /\ r = NULL /\ fit /\ ~held(v3) => d.v3 = v3
              /\ r = NULL /\ ~(fit /\ ~held(v3)) =>
                    /\ d.v3 # v3
                    /\ Truthy(d.v3) /\ Len(d.v3) = PidLen
                    /\ ~held(d.v3)
              /\ versions'[d.current_version].file.v3 = d.v3 ]_vars

\* a new document kept the well-formed v3 of its XML beside other Documents
C19_Witness ==
    /\ last.op = "register"
    /\ last.outcome = "accepted"
    /\ last.registered = NULL
    /\ last.xml.v3 = XmlV3
    /\ docs[last.id].v3 = XmlV3
    /\ Len(docs) >= 2

\* C20: _add_pid_v2 overwrites the v2 of the XML by the v2 of the resolved
\* record when they differ; then a v2 of 23 characters is kept as it is and
\* any other is replaced by a newly allocated v2.
C20_AddPidV2 ==
    [][ AcceptedStep =>
          LET r    == last'.registered
              d    == docs'[last'.id]
              base == IF r # NULL /\ Truthy(docs[r].v2) /\ last'.xml.v2 # docs[r].v2
                      THEN docs[r].v2 ELSE last'.xml.v2
          IN  /\ Truthy(base) /\ Len(base) = PidLen => d.v2 = base
              /\ ~(Truthy(base) /\ Len(base) = PidLen) =>
                    /\ d.v2 = _v2_generates(last'.xml, now)
                    /\ Len(d.v2) = PidLen
                    /\ \A i \in DocIds : docs[i].v2 # d.v2
              /\ versions'[d.current_version].file.v2 = d.v2 ]_vars

\* an XML with a malformed v2 was registered over a Document and carries the
\* v2 of that Document
C20_Witness ==
    /\ last.op = "register"
    /\ last.outcome = "accepted"
    /\ last.registered # NULL
    /\ last.xml.v2 = BadIds[1]
    /\ Len(docs[last.id].v2) = PidLen

\* C21: the xml_changed returned by register is true exactly when the
\* (v2, v3, aop_pid) of the document after _complete_pids, which is the one
\* stored, differs from the one the incoming XML held on entry, whether or not
\* the content changed or a version was created.
C21_XmlChanged ==
    [][ AcceptedStep =>
          \A x \in {last'.xml} : \A d \in {docs'[last'.id]} :
              last'.result.xml_changed = (pids(x) # pids(d)) ]_vars

\* a record registered again with the same identifiers and another abstract:
\* a second version is created and xml_changed is false
C21_Witness ==
    /\ last.op = "register" /\ last.outcome = "accepted"
    /\ last.registered # NULL
    /\ Cardinality(versions_of(last.id)) > 1
    /\ versions[docs[last.id].current_version].file = last.xml
    /\ pids(last.xml) = XmlIds
    /\ ~last.result.xml_changed

\* this step is a call of check_registration_demand that returned
CheckStep == calls' = calls + 1 /\ last'.op = "check_registration_demand"

\* C22: check_registration_demand returns required_remote_registration = there
\* is no existing record, or the finger print of the incoming XML differs from
\* the one of the current version of the existing record, or the existing
\* record is not synchronized; and required_local_registration = there is no
\* existing record or required_remote_registration.
C22_RegistrationDemand ==
    [][ CheckStep =>
          \A x \in {last'.xml} : \A q \in {_query_document(x, docs, journals, issues)} :
              q.error = None =>
                  \A remote \in { \/ q.registered = NULL
                                  \/ docs[q.registered].current_version = NULL
                                  \/ versions[docs[q.registered].current_version].finger_print
                                        # finger_print(x)
                                  \/ docs[q.registered].synchronized # "True" } :
                      /\ last'.result.required_remote_registration = remote
                      /\ last'.result.required_local_registration
                            = (q.registered = NULL \/ remote) ]_vars

\* a demand on a synchronized record with the finger print of the input:
\* nothing is required
C22_Witness ==
    /\ last.op = "check_registration_demand"
    /\ "registered" \in DOMAIN last.result
    /\ last.result.registered # <<>>
    /\ ~last.result.required_remote_registration
    /\ ~last.result.required_local_registration

\* C23: when register(x) was accepted and left the record synchronized, a
\* check_registration_demand(x) called next with the same input requires
\* neither the remote nor the local registration, also when x came without
\* identifiers and register completed them.
C23_NoDemandAfterSynchronizedRegister ==
    [][ ( /\ CheckStep
          /\ last.op = "register" /\ last.outcome = "accepted"
          /\ last.synchronized = "True" /\ docs[last.id].synchronized = "True"
          /\ last'.xml = last.xml )
        => /\ ~last'.result.required_remote_registration
           /\ ~last'.result.required_local_registration ]_vars

\* this step is a call of check_registration_demand or get_registered
ReadStep ==
    calls' = calls + 1 /\ last'.op \in {"check_registration_demand", "get_registered"}

\* C24: check_registration_demand and get_registered do not raise
\* NotEnoughParametersToGetDocumentRecordError or
\* QueryDocumentMultipleObjectsReturnedError: they return a result with exactly
\* error_type and error_msg; and, error or not, they leave every
\* PidRequesterXML, XMLVersion and PidRequesterBadRequest row as it was.
C24_DemandNeverRaises ==
    [][ ReadStep =>
          /\ <<docs, versions, bad_requests>>' = <<docs, versions, bad_requests>>
          /\ \A q \in {_query_document(last'.xml, docs, journals, issues)} :
                q.error \in {NotEnough, MultipleObjects} =>
                    /\ DOMAIN last'.result = {"error_type", "error_msg"}
                    /\ last'.result.error_type = q.error ]_vars

\* a demand on an XML that matches two records returns the error as a result
C24_Witness ==
    /\ last.op = "check_registration_demand"
    /\ DOMAIN last.result = {"error_type", "error_msg"}
    /\ last.result.error_type = MultipleObjects
    /\ Len(docs) = 2

\* this step is a call of set_synchronized that returned
SetSynchronizedStep == calls' = calls + 1 /\ last'.op = "set_synchronized"

\* C25: set_synchronized, after a remote success or a remote failure, changes
\* of the record only synchronized, sync_failure, updated and updated_by: its
\* v2, v3, aop_pid, journal, issue and current_version, the other records and
\* the XMLVersion rows stay as they were.
C25_SetSynchronizedFrame ==
    [][ SetSynchronizedStep =>
          /\ versions' = versions
          /\ Len(docs') = Len(docs)
          /\ \A i \in DocIds :
                \A k \in DOMAIN docs[i] :
                    (i # last'.id \/ k \notin {"synchronized", "sync_failure",
                                               "updated", "updated_by"})
                        => docs'[i][k] = docs[i][k] ]_vars

\* a failed push recorded on a registered document, which keeps its
\* identifiers and its current version
C25_Witness ==
    /\ last.op = "set_synchronized"
    /\ docs[last.id].synchronized = "False"
    /\ docs[last.id].sync_failure # NULL
    /\ failures[docs[last.id].sync_failure].created = docs[last.id].updated
    /\ docs[last.id].current_version \in versions_of(last.id)
    /\ Truthy(docs[last.id].v3)

\* C26: when register is called with any of error_msg, error_type or
\* traceback and the registration is accepted, the record and its version are
\* saved and the identifiers returned, exactly one SyncFailure with those
\* details is created and attached, and the stored synchronized is False
\* whatever synchronized the caller passed.
C26_RegisterWithErrorDetails ==
    [][ ( /\ AcceptedStep
          /\ \E k \in DOMAIN last'.err : Truthy(last'.err[k]) ) =>
          \A d \in {docs'[last'.id]} :
              /\ d.current_version # NULL
              /\ versions'[d.current_version].pid_requester_xml = last'.id
              /\ Truthy(d.v3) /\ Truthy(d.v2)
              /\ last'.result.v3 = d.v3 /\ last'.result.v2 = d.v2
              /\ last'.result.aop_pid = d.aop_pid
              /\ Len(failures') = Len(failures) + 1
              /\ SubSeq(failures', 1, Len(failures)) = failures
              /\ d.sync_failure = Len(failures')
              /\ SyncFailure_data(failures'[d.sync_failure]) = last'.err
              /\ d.synchronized = "False" ]_vars

\* a registration called with synchronized = True and an error type only:
\* saved, with a SyncFailure and synchronized False
C26_Witness ==
    /\ last.op = "register" /\ last.outcome = "accepted"
    /\ last.synchronized = "True"
    /\ last.err = ErrorTypeOnly
    /\ docs[last.id].synchronized = "False"
    /\ docs[last.id].sync_failure = Len(failures)
    /\ docs[last.id].current_version # NULL

\* C28: no call of register, set_synchronized, check_registration_demand or
\* get_registered removes a PidRequesterXML or an XMLVersion row or changes the
\* finger print, the content or the package name of an existing XMLVersion:
\* both tables only grow and a replaced version stays as it was.
C28_AppendOnly ==
    [][ /\ Len(docs') >= Len(docs)
        /\ Len(versions') >= Len(versions)
        /\ \A v \in 1..Len(versions) :
              /\ versions'[v].finger_print = versions[v].finger_print
              /\ versions'[v].file = versions[v].file
              /\ versions'[v].pkg_name = versions[v].pkg_name
              /\ versions'[v].pid_requester_xml = versions[v].pid_requester_xml ]_vars

\* a record whose first version was replaced by a second one and is still
\* stored with its own content
C28_Witness ==
    \E i \in DocIds : \E v \in versions_of(i) :
        /\ v # docs[i].current_version
        /\ docs[i].current_version \in versions_of(i)
        /\ versions[v].finger_print = finger_print(versions[v].file)
        /\ versions[v].file # versions[docs[i].current_version].file

newest_version(i) == CHOOSE v \in versions_of(i) : \A w \in versions_of(i) : w <= v

\* C27: in every state of the store, also one left by a failure between two
\* writes of _save, the current_version of every record is null or a version
\* of that record, and the last version created for a record is its
\* current_version.
C27_VersionAtomic ==
    \A i \in DocIds :
        /\ docs[i].current_version = NULL \/ docs[i].current_version \in versions_of(i)
        /\ versions_of(i) # {} => docs[i].current_version = newest_version(i)

\* C30: assigning v2, v3 or aop_pid of an XMLWithPre a value that is None or
\* empty or not 23 characters long raises ValueError and writes nothing: the
\* three identifiers and everything else in the document stay as they were.
C30_SetterRejects ==
    ( /\ last.op \in {"set_v2", "set_v3", "set_aop_pid"}
      /\ (last.value = None \/ last.value = "" \/ Len(last.value) # 23) )
    => /\ ~last.result.ok
       /\ last.result.xml = last.xml

\* a v3 of 15 characters assigned to a document that carries its identifiers
C30_Witness ==
    /\ last.op = "set_v3"
    /\ last.value = "bad_size_not_23"
    /\ pids(last.xml) = XmlIds
    /\ ~last.result.ok
    /\ pids(last.result.xml) = XmlIds

\* C31: a v2 that register obtains from _get_unique_v2 is "S", the electronic
\* (else the print) issn, the publication year, the month and the day in two
\* digits each and the last five digits of the current epoch second; it is 23
\* characters long and no Document holds it as v2 when it is returned; for
\* issn 1234-5678 and year 2021 it starts with S1234-56782021.
C31_V2Generated ==
    [][ AcceptedStep /\ v2_is_generated(last'.xml, last'.registered, docs) =>
          \A x \in {last'.xml} : \A g \in {docs'[last'.id].v2} :
              /\ g = "S" \o (IF Truthy(x.journal_issn_electronic)
                                THEN x.journal_issn_electronic
                                ELSE x.journal_issn_print)
                         \o x.pub_year \o "0" \o Str(Month) \o "0" \o Str(Day)
                         \o zfill(Str((EpochBase + now) % 100000), 5)
              /\ Len(g) = 23
              /\ \A i \in DocIds : docs[i].v2 # g
              /\ (x.journal_issn_electronic = "1234-5678" /\ x.pub_year = "2021")
                    => SubSeq(g, 1, 14) = "S1234-56782021" ]_vars

\* a second new document given a v2 one second after the first
C31_Witness ==
    /\ last.op = "register" /\ last.outcome = "accepted"
    /\ last.registered = NULL /\ last.xml.v2 = None
    /\ last.result.v2 = "S1234-56782021020201602"
    /\ \E i \in DocIds : docs[i].v2 = "S1234-56782021020201601"

\* C32: for every well-formed document, with a declaration or a doctype before
\* the root element or with none, get_xml_with_pre(x).tostring() is x.
C32_RoundTrip ==
    last.op = "get_xml_with_pre" => ~last.raised /\ last.result = last.xml_content

\* C33: the resolution of a query list with an item that does not carry the
\* required parameters ends in NotEnoughParametersToGetDocumentRecordError and
\* returns no record, whichever items match rows of the store.
C33_AnyBadTierFails ==
    last.op = "_query_document"
    /\ (\E n \in 1..Len(last.plan) : ~validate_query_params(last.plan[n]))
    => /\ last.result.error = "NotEnoughParametersToGetDocumentRecordError"
       /\ last.result.registered = NULL

\* whether a value the loop of p can generate is still not registered
UnusedExists(p) ==
    IF procs[p].pc \in {"v2_generate", "v2_check"}
    THEN \E t \in 1..MaxClock :
            \A i \in DocIds :
                docs[i].v2 # "S1234-567820210202" \o zfill(Str((EpochBase + t) % 100000), 5)
    ELSE \E g \in V3Pool : \A i \in DocIds : docs[i].v3 # g

\* C34: a caller inside the loop of _get_unique_v3 or of _get_unique_v2
\* leaves it, as long as a value that is not registered exists, and the value
\* returned was held by no record when it was looked up; so it is for v2 after
\* the first value was found registered and generated again in the same second.
C34_AllocatorsReturn ==
    /\ \A p \in Procs :
          /\ (procs[p].pc \in {"v3_generate", "v3_check"})
                ~> (procs[p].pc = "v3_returned" \/ ~UnusedExists(p))
          /\ (procs[p].pc \in {"v2_generate", "v2_check"})
                ~> (procs[p].pc = "v2_returned" \/ ~UnusedExists(p))
    /\ [][ \A p \in Procs :
              /\ procs[p].pc = "v3_check" /\ procs'[p].pc = "v3_returned"
                 => \A i \in DocIds : docs[i].v3 # procs'[p].generated
              /\ procs[p].pc = "v2_check" /\ procs'[p].pc = "v2_returned"
                 => \A i \in DocIds : docs[i].v2 # procs'[p].generated ]_vars
C34_Witness ==
    /\ procs["p1"].pc = "v2_returned"
    /\ procs["p1"].v3_retried
    /\ procs["p1"].v2_retried

\* C35: an assignment of a 23-character value to v2, v3 or aop_pid sets the
\* text of the article-id of that slot, or makes the node (and front and
\* article-meta) when there is none; the slot has one node afterwards, however
\* often the assignment is repeated; the nodes of the other two slots are as
\* before; the text before the root element is as before and tostring()
\* starts with it.
C35_AssignFrame ==
    [][ last'.op = "assign" /\ ~last'.raised =>
          \A before \in {last.xmltree} : \A after \in {last'.xmltree} :
              /\ Cardinality(slot_nodes(after, last'.slot)) = 1
              /\ Cardinality(slot_nodes(before, last'.slot)) <= 1
              /\ \A i \in slot_nodes(after, last'.slot) :
                    after.children[i].text = last'.value
              /\ after.front /\ after.meta
              /\ \A other \in DOMAIN SpecificUse \ {last'.slot} :
                    /\ Cardinality(slot_nodes(after, other))
                          = Cardinality(slot_nodes(before, other))
                    /\ \A i \in slot_nodes(before, other), j \in slot_nodes(after, other) :
                          after.children[j] = before.children[i]
              /\ last'.xmlpre = last.xmlpre
              /\ startswith(XMLWithPre_tostring(last'.xmlpre, after), last.xmlpre) ]_vars

\* a second value assigned to the v2 made by an earlier assignment, in a
\* document with a declaration and a doctype that carried a v3 and no v2
C35_Witness ==
    /\ last.op = "assign" /\ last.slot = "v2" /\ ~last.raised
    /\ last.value = GenV3a
    /\ last.xmlpre # ""
    /\ XMLWithPre_tostring(last.xmlpre, last.xmltree)
         = last.xmlpre \o "<article article-type=\"research-article\"><front><article-meta>"
             \o "<article-id pub-id-type=\"publisher-id\" specific-use=\"scielo-v3\">xml456789012345678901v3</article-id>"
             \o "<article-id pub-id-type=\"publisher-id\" specific-use=\"scielo-v2\">gen456789012345678901v3</article-id>"
             \o "</article-meta></front></article>"

\* C36: no state of the store holds a record whose v3 is null: a new record is
\* stored together with its identifiers, also when the registration fails
\* after some of its writes.
C36_NoRecordWithoutV3 == \A i \in DocIds : docs[i].v3 # None

\* C37: the issue of a record is never set back to null once a registration
\* has attached it, also when a registration of the article ahead of print and
\* one of the article in an issue run interleaved on the same record.
C37_IssueNeverDetached ==
    [][ \A i \in DocIds : docs[i].issue # NULL => docs'[i].issue # NULL ]_vars

\* C38: in every result of check_registration_demand that is not an error,
\* required_local_registration equals required_remote_registration.
C38_FlagsEqual ==
    ( /\ last.op = "check_registration_demand"
      /\ "required_local_registration" \in DOMAIN last.result )
    => last.result.required_local_registration = last.result.required_remote_registration

\* a demand on a registered record that is not synchronized: both are required
C38_Witness ==
    /\ last.op = "check_registration_demand"
    /\ "required_local_registration" \in DOMAIN last.result
    /\ last.result.registered # <<>>
    /\ last.result.registered.synchronized = "False"
    /\ last.result.required_local_registration
    /\ last.result.required_remote_registration

\* C39: every record for which check_registration_demand, given the record's
\* own current content, answers required_remote_registration = TRUE is among
\* the rows of unsynchronized(), whether its synchronized is null or False.
C39_UnsynchronizedComplete ==
    \A x \in XMLInputs :
        \A q \in {_query_document(x, docs, journals, issues)} :
            ( /\ q.error = None
              /\ q.registered # NULL
              /\ is_equal_to(docs[q.registered], versions, x)
              /\ check_registration_demand(x, docs, versions, journals, issues,
                                           failures).required_remote_registration )
            => q.registered \in unsynchronized(docs)

\* C40: a record that has a SyncFailure keeps one through every register and
\* set_synchronized, those that report success included: the failure is the
\* same or a newer one, and data goes on carrying its error_type and error_msg.
C40_FailureStays ==
    [][ \A i \in DocIds :
          docs[i].sync_failure # NULL =>
              /\ docs'[i].sync_failure # NULL
              /\ docs'[i].sync_failure >= docs[i].sync_failure
              /\ docs'[i].sync_failure > docs[i].sync_failure
                    => docs'[i].sync_failure = Len(failures') /\ Len(failures') > Len(failures)
              /\ \A d \in {data(docs'[i], failures')} :
                    /\ "error_type" \in DOMAIN d
                    /\ d.error_type = failures'[docs'[i].sync_failure].error_type
                    /\ d.error_msg = failures'[docs'[i].sync_failure].error_msg ]_vars

\* a record that carries its failure after a set_synchronized that reported
\* success
C40_Witness ==
    /\ \E i \in DocIds :
          /\ docs[i].sync_failure # NULL
          /\ docs[i].synchronized = "True"
          /\ last.op = "set_synchronized" /\ last.id = i
          /\ data(docs[i], failures).error_type = "error_type"

====
